---- MODULE Spec2Model ----
(***************************************************************************)
(* Model of TeamProvider (TeamContext.tsx): the live game engine with the   *)
(* game clock, the per-player playtime ledger, the lineup move operation   *)
(* and the event log; the game list; the roster, whose handlers await      *)
(* Supabase; the saved lineups; the fetch effect that runs on mount and on *)
(* every change of the session.  Time is the wall clock of Date.now(), in  *)
(* milliseconds.                                                           *)
(***************************************************************************)
EXTENDS Integers, Sequences, FiniteSets, TLC

VARIABLES
    now,        \* Date.now(), milliseconds
    today,      \* environment: the wall clock's calendar day, a day number
    players,    \* TeamProvider state `players` (roster with planning location)
    games,      \* TeamProvider state `games`
    started,    \* history: startGameTimer has acted on the game since addGame/reset
    runMs,      \* history: wall-clock ms during which timerStatus was running
    fieldMs,    \* history: per player, ms spent on field while the clock ran
    issued,     \* ids the players table has handed out so far (uuid, never reused)
    issuedGames, \* number of ids uuidv4() has handed to games so far (never reused)
    queries,    \* the roster calls in flight: each waits for the answer of its query
    alertShown, \* the last alert dialog a roster handler has shown: "guard" (Could
                \* not add player...), "error" (Error ...), null when none
    stored,     \* localStorage item 'games' (the parsed value)
    storageOk,  \* environment: localStorage.setItem succeeds (FALSE: it throws)
    savedLineups,   \* TeamProvider state `savedLineups`
    storedLineups,  \* localStorage item 'savedLineups' (the parsed value)
    loadReturned,   \* what the last loadLineup call returned
    lastSaved,      \* history: the name as passed to the last saveLineup call and
                    \* the players then, while only moves, swaps and resets followed
    session,        \* environment: the session the Supabase client holds
    sessionAsked,   \* the promise of supabase.auth.getSession() is pending
    currentUser,    \* TeamProvider state `currentUser`
    teamData,       \* TeamProvider state `teamData`
    teamLoading,    \* TeamProvider state `teamLoading`
    playersLoading, \* TeamProvider state `playersLoading`
    fetches         \* the fetchTeamAndPlayers calls in flight: each waits for an answer

\* the planning page's saved lineups
planVars == <<savedLineups, storedLineups, loadReturned, lastSaved>>

\* the session and what the fetch effect keeps of it
authVars ==
    <<session, sessionAsked, currentUser, teamData, teamLoading, playersLoading, fetches>>

\* the roster calls in flight and the ids given to games
callVars == <<queries, issuedGames>>

vars ==
    <<now, today, players, games, started, runMs, fieldMs, issued, alertShown, stored, storageOk,
      planVars, authVars, callVars>>

----------------------------------------------------------------------------
(* Bounds of the model *)

\* Spec: the wall clock advances at most this many quarter-second ticks
MaxTicks == 2
\* SpecSeconds: the wall clock advances at most this many whole seconds
MaxSeconds == 2
\* cap on the length of a game's event log
MaxEvents == 1
\* SpecLog: cap on the length of the event log
MaxLogEvents == 3
\* SpecRoster: number of rows addPlayer inserts into the players table
MaxAdded == 1

\* five-minute steps of the wall clock taken by SpecScenario
MaxScenarioTicks == 3

\* SpecAuth: fetchTeamAndPlayers calls awaiting an answer at one time
MaxFetches == 3

\* SpecSchedule: number of games addGame creates
MaxGames == 2
\* SpecRoster: roster calls awaiting their answer at one time
MaxQueries == 2

(* Program constants *)

\* the divisor of every (now - start) / 1000 conversion
MsPerSecond == 1000

----------------------------------------------------------------------------
(* Value domains *)

\* null / undefined of an id or a position
NULL == "null"
\* null of a `number | null` instant (timerStartTime, playtimerStartTime)
NoTime == 0 - 1

PlayerIds == {"p1", "p2"}
\* a player id that is in no roster and no lineup (stale reference)
GhostPlayer == "p0"
GameId == "g1"
\* the dates of games, as day numbers, and the date of the game in localStorage
GameDates == {1, 2}
StoredDate == 2
\* the days the wall clock can show when the app is opened: the day before the
\* stored game's date, that date, the day after
WallClockDays == {StoredDate - 1, StoredDate, StoredDate + 1}
\* a game id that is not in games (stale reference)
GhostGame == "g0"
GameIds == {GameId, GhostGame}
Locations == {"bench", "field", "inactive"}
Teams == {"home", "away"}
\* abstract {x, y} percentage coordinates
Positions == {"posA", "posB"}
\* Spec advances the wall clock in quarter seconds, so that Math.round rounds
\* down (0.25) as well as up (0.5, 0.75); SpecSeconds in whole seconds
TickSteps == {250}
WholeSecondSteps == {1000}

\* JavaScript truthiness of a `number | null` value
Truthy(x) == x # NoTime /\ x # 0

\* Math.round(ms / 1000) for a non-negative number of milliseconds
RoundSeconds(ms) == (ms + (MsPerSecond \div 2)) \div MsPerSecond

\* Array.prototype.findIndex on an id; 0 stands for -1
RECURSIVE FindFrom(_, _, _)
FindFrom(s, id, i) ==
    IF i > Len(s) THEN 0
    ELSE IF s[i].id = id THEN i
    ELSE FindFrom(s, id, i + 1)

findIndex(s, id) == FindFrom(s, id, 1)

----------------------------------------------------------------------------
(* createDefaultLineup and addGame *)

createDefaultLineup(ps) ==
    [i \in 1..Len(ps) |->
        [id |-> ps[i].id, location |-> "bench", position |-> NULL,
         initialPosition |-> NULL, playtimeSeconds |-> 0,
         playtimerStartTime |-> NoTime, isStarter |-> FALSE,
         subbedOnCount |-> 0, subbedOffCount |-> 0]]

\* the roster as fetchTeamAndPlayers leaves it: everybody on the planning bench
fetchedPlayers ==
    << [id |-> "p1", first_name |-> "ann", number |-> "7",
        location |-> "bench", position |-> NULL],
       [id |-> "p2", first_name |-> "cy", number |-> NULL,
        location |-> "bench", position |-> NULL] >>

\* mutant: the lineup is built from the roster as it was fetched
newGameOfFetchedRoster(id, date, loc, ps) ==
    [id |-> id, date |-> date, location |-> loc, homeScore |-> 0, awayScore |-> 0,
     timerStatus |-> "stopped", timerStartTime |-> NoTime,
     timerElapsedSeconds |-> 0, isExplicitlyFinished |-> FALSE,
     lineup |-> createDefaultLineup(fetchedPlayers), events |-> << >>]

\* the game addGame builds (opponent, time, season and competition are not
\* read by any handler and are left out)
newGame(id, date, loc, ps) ==
    [id |-> id, date |-> date, location |-> loc, homeScore |-> 0, awayScore |-> 0,
     timerStatus |-> "stopped", timerStartTime |-> NoTime,
     timerElapsedSeconds |-> 0, isExplicitlyFinished |-> FALSE,
     lineup |-> createDefaultLineup(ps), events |-> << >>]

\* the ids uuidv4() gives to games, in the order it gives them
GameUuidPool == <<"g1", "g2", "g3", "g4">>

nextGameUuid(given) == GameUuidPool[given + 1]

\* Array.prototype.sort((a, b) => new Date(a.date) - new Date(b.date)), a
\* stable sort
RECURSIVE sortByDate(_)
sortByDate(gs) ==
    IF gs = << >> THEN << >>
    ELSE LET rest == sortByDate(SubSeq(gs, 1, Len(gs) - 1))
             x == gs[Len(gs)]
             k == Cardinality({ i \in 1..Len(rest) : rest[i].date <= x.date })
         IN SubSeq(rest, 1, k) \o <<x>> \o SubSeq(rest, k + 1, Len(rest))

gamesAfterAdd(gs, g) == sortByDate(Append(gs, g))

\* { ...g, ...finalUpdates } of updateGame
mergedGame(g, u) == [f \in DOMAIN g |-> IF f \in DOMAIN u THEN u[f] ELSE g[f]]

gamesAfterUpdate(gs, id, updates) ==
    sortByDate([i \in 1..Len(gs) |->
        IF gs[i].id = id THEN mergedGame(gs[i], updates) ELSE gs[i]])

keptGame(g, id) == g.id # id

gamesAfterDelete(gs, id) == SelectSeq(gs, LAMBDA g : keptGame(g, id))

ZeroFieldMs == [p \in PlayerIds |-> 0]

\* the signed-in user and the row of `teams` that belongs to that user
UserId == "u1"

fetchedTeamData == "team1"

\* the live game time: timerElapsedSeconds plus the running delta, in ms
\* mutant: the time the clock has run since its last start is left out
currentMsStoredOnly(g, t) == g.timerElapsedSeconds * MsPerSecond

currentMs(g, t) ==
    g.timerElapsedSeconds * MsPerSecond
      + (IF g.timerStatus = "running" /\ Truthy(g.timerStartTime)
         THEN t - g.timerStartTime ELSE 0)

----------------------------------------------------------------------------
(* The roster: what addPlayer, updatePlayer and deletePlayer make of the    *)
(* players list once the Supabase call has answered.  `error` is the error  *)
(* field of the answer, NULL when the call succeeded.                       *)

FirstNames == {"ann", "bob", "cy", "dee"}

\* the order of the first names under localeCompare
nameRank(n) == CASE n = "ann" -> 1 [] n = "bob" -> 2 [] n = "cy" -> 3 [] n = "dee" -> 4

\* Array.prototype.sort((a, b) => a.first_name.localeCompare(b.first_name)),
\* a stable sort
RECURSIVE sortByFirstName(_)
sortByFirstName(ps) ==
    IF ps = << >> THEN << >>
    ELSE LET rest == sortByFirstName(SubSeq(ps, 1, Len(ps) - 1))
             x == ps[Len(ps)]
             k == Cardinality({ i \in 1..Len(rest) :
                        nameRank(rest[i].first_name) <= nameRank(x.first_name) })
         IN SubSeq(rest, 1, k) \o <<x>> \o SubSeq(rest, k + 1, Len(rest))

\* the uuids the players table hands out, in the order it hands them out
UuidPool == <<"p3", "p4", "p5">>

nextUuid(given) == UuidPool[Cardinality(given) - Cardinality(PlayerIds) + 1]

\* the row the insert returns, with the local defaults
newPlayer(id, firstName, number) ==
    [id |-> id, first_name |-> firstName,
     number |-> IF number = "" THEN NULL ELSE number,
     location |-> "bench", position |-> NULL]

playersAfterAdd(ps, row, error) ==
    IF error # NULL THEN ps ELSE sortByFirstName(Append(ps, row))

\* dbUpdates of updatePlayer: an empty number is stored as null
dbUpdates(updates) ==
    [f \in DOMAIN updates |->
        IF f = "number" /\ updates[f] = "" THEN NULL ELSE updates[f]]

\* { ...p, ...dbUpdates }
merged(p, u) == [f \in DOMAIN p |-> IF f \in DOMAIN u THEN u[f] ELSE p[f]]

playersAfterUpdate(ps, id, updates, error) ==
    IF error # NULL THEN ps
    ELSE sortByFirstName([i \in 1..Len(ps) |->
            IF ps[i].id = id THEN merged(ps[i], dbUpdates(updates)) ELSE ps[i]])

keptPlayer(p, id) == p.id # id

\* mutant: the local list is filtered before the answer is looked at
playersAfterDeleteOptimistic(ps, id, error) ==
    SelectSeq(ps, LAMBDA p : keptPlayer(p, id))

playersAfterDelete(ps, id, error) ==
    IF error # NULL THEN ps ELSE SelectSeq(ps, LAMBDA p : keptPlayer(p, id))

----------------------------------------------------------------------------
(* The per-game updaters: what each setGamesState callback does to the game *)
(* it selects, at wall-clock instant t.                                     *)

\* mutant: the scorer is recorded as the assist and the assist as the scorer
goalEventScorerAsAssist(g, team, scorer, assist, t) ==
    [type |-> "goal", team |-> team, scorerPlayerId |-> assist,
     assistPlayerId |-> scorer, playerInId |-> NULL, playerOutId |-> NULL,
     gameSeconds |-> RoundSeconds(currentMs(g, t))]

goalEvent(g, team, scorer, assist, t) ==
    [type |-> "goal", team |-> team, scorerPlayerId |-> scorer,
     assistPlayerId |-> assist, playerInId |-> NULL, playerOutId |-> NULL,
     gameSeconds |-> RoundSeconds(currentMs(g, t))]

addGameEventOn(g, team, scorer, assist, t) ==
    [g EXCEPT
        !.events = Append(g.events, goalEvent(g, team, scorer, assist, t)),
        !.homeScore = IF team = "home" THEN g.homeScore + 1 ELSE g.homeScore,
        !.awayScore = IF team = "away" THEN g.awayScore + 1 ELSE g.awayScore]

\* mutant: the scan runs oldest-to-newest and stops at the first goal of `team`
oldestGoalEventIndex(events, team, i) ==
    LET hits == { j \in 1..i : events[j].type = "goal" /\ events[j].team = team } IN
    IF hits = {} THEN 0 ELSE CHOOSE j \in hits : \A h \in hits : j <= h

\* mutant: the scan stops at the newest goal, whichever team scored it
newestGoalAnyTeamIndex(events, team, i) ==
    LET hits == { j \in 1..i : events[j].type = "goal" } IN
    IF hits = {} THEN 0 ELSE CHOOSE j \in hits : \A h \in hits : j >= h

\* mutant: the scan stops at the newest event of `team`, goal or substitution
newestEventOfTeamIndex(events, team, i) ==
    LET hits == { j \in 1..i : events[j].team = team } IN
    IF hits = {} THEN 0 ELSE CHOOSE j \in hits : \A h \in hits : j >= h

\* the backwards scan: highest index of a goal event of `team`, 0 when none
RECURSIVE lastGoalEventIndex(_, _, _)
lastGoalEventIndex(events, team, i) ==
    IF i < 1 THEN 0
    ELSE IF events[i].type = "goal" /\ events[i].team = team THEN i
    ELSE lastGoalEventIndex(events, team, i - 1)

\* updatedEvents.splice(i, 1)
splice(s, i) == SubSeq(s, 1, i - 1) \o SubSeq(s, i + 1, Len(s))

Max0(n) == IF n < 0 THEN 0 ELSE n

\* mutant: the goal event is removed and the score is left as it was
removeLastGameEventKeepsScore(g, team) ==
    LET i == lastGoalEventIndex(g.events, team, Len(g.events)) IN
    IF i # 0 THEN [g EXCEPT !.events = splice(g.events, i)] ELSE g

removeLastGameEventOn(g, team) ==
    LET i == lastGoalEventIndex(g.events, team, Len(g.events)) IN
    IF i # 0
    THEN [g EXCEPT
            !.events = splice(g.events, i),
            !.homeScore = IF team = "home" THEN Max0(g.homeScore - 1) ELSE g.homeScore,
            !.awayScore = IF team = "away" THEN Max0(g.awayScore - 1) ELSE g.awayScore]
    ELSE g

\* new Date().toISOString().split('T')[0]
getCurrentDate == today

isStartingFresh(g) == g.timerElapsedSeconds = 0 /\ ~Truthy(g.timerStartTime)

\* mutant: on a fresh start only the players on the field become starters
startGameTimerOnFieldStarters(g, t, currentDate) ==
    LET fresh == isStartingFresh(g)
        startEntry(p) ==
            LET isFieldPlayer == p.location = "field" IN
            [p EXCEPT
                !.playtimerStartTime = IF isFieldPlayer THEN t ELSE p.playtimerStartTime,
                !.isStarter = IF fresh THEN isFieldPlayer ELSE p.isStarter,
                !.initialPosition = IF fresh /\ isFieldPlayer THEN p.position
                                    ELSE p.initialPosition]
    IN [g EXCEPT
            !.date = IF g.date # currentDate THEN currentDate ELSE g.date,
            !.timerStatus = "running", !.timerStartTime = t,
            !.isExplicitlyFinished = FALSE,
            !.lineup = [i \in 1..Len(g.lineup) |-> startEntry(g.lineup[i])]]

\* the game is dated today when it is started (the list is not sorted again;
\* the time of day, rewritten with it, is not a field of the model's game)
startGameTimerOn(g, t, currentDate) ==
    LET fresh == isStartingFresh(g)
        startEntry(p) ==
            LET isFieldPlayer == p.location = "field" IN
            [p EXCEPT
                !.playtimerStartTime = IF isFieldPlayer THEN t ELSE p.playtimerStartTime,
                !.isStarter = IF fresh THEN p.location \in {"field", "bench"}
                              ELSE p.isStarter,
                !.initialPosition = IF fresh /\ isFieldPlayer THEN p.position
                                    ELSE p.initialPosition]
    IN [g EXCEPT
            !.date = IF g.date # currentDate THEN currentDate ELSE g.date,
            !.timerStatus = "running", !.timerStartTime = t,
            !.isExplicitlyFinished = FALSE,
            !.lineup = [i \in 1..Len(g.lineup) |-> startEntry(g.lineup[i])]]

\* the playtime flush shared by stopGameTimer and markGameAsFinished
\* mutant: the flush stores the last slice alone, forgetting earlier playtime
flushEntryLastSliceOnly(p, t) ==
    IF p.location \in {"field", "inactive"} /\ Truthy(p.playtimerStartTime)
    THEN [p EXCEPT
            !.playtimeSeconds = RoundSeconds(t - p.playtimerStartTime),
            !.playtimerStartTime = NoTime]
    ELSE p

flushEntry(p, t) ==
    IF p.location \in {"field", "inactive"} /\ Truthy(p.playtimerStartTime)
    THEN [p EXCEPT
            !.playtimeSeconds =
                RoundSeconds(p.playtimeSeconds * MsPerSecond + (t - p.playtimerStartTime)),
            !.playtimerStartTime = NoTime]
    ELSE p

\* mutant: the running slice is cut down to whole seconds, not rounded
newElapsedSecondsTruncated(g, t) ==
    (g.timerElapsedSeconds * MsPerSecond + (t - g.timerStartTime)) \div MsPerSecond

newElapsedSeconds(g, t) ==
    RoundSeconds(g.timerElapsedSeconds * MsPerSecond + (t - g.timerStartTime))

\* mutant: the stop keeps the instant the clock was started at
stopGameTimerOnStartKept(g, t) ==
    [g EXCEPT
        !.timerStatus = "stopped",
        !.timerElapsedSeconds = newElapsedSeconds(g, t),
        !.lineup = [i \in 1..Len(g.lineup) |-> flushEntry(g.lineup[i], t)]]

stopGameTimerOn(g, t) ==
    [g EXCEPT
        !.timerStatus = "stopped", !.timerStartTime = NoTime,
        !.timerElapsedSeconds = newElapsedSeconds(g, t),
        !.lineup = [i \in 1..Len(g.lineup) |-> flushEntry(g.lineup[i], t)]]

\* mutant: the game is flagged finished and flushed, the clock is left running
markGameAsFinishedOnClockLeftRunning(g, t) ==
    LET isRunning == g.timerStatus = "running" /\ Truthy(g.timerStartTime)
        finalElapsedSeconds ==
            IF isRunning THEN newElapsedSeconds(g, t) ELSE g.timerElapsedSeconds
        flushed(p) == IF isRunning THEN flushEntry(p, t) ELSE p
    IN [g EXCEPT
            !.timerElapsedSeconds = finalElapsedSeconds,
            !.isExplicitlyFinished = TRUE,
            !.lineup = [i \in 1..Len(g.lineup) |->
                          [flushed(g.lineup[i]) EXCEPT !.playtimerStartTime = NoTime]]]

\* mutant: the clock is reconciled, the players' running slices are dropped
markGameAsFinishedOnSlicesDropped(g, t) ==
    LET isRunning == g.timerStatus = "running" /\ Truthy(g.timerStartTime)
        finalElapsedSeconds ==
            IF isRunning THEN newElapsedSeconds(g, t) ELSE g.timerElapsedSeconds
    IN [g EXCEPT
            !.timerStatus = "stopped", !.timerStartTime = NoTime,
            !.timerElapsedSeconds = finalElapsedSeconds,
            !.isExplicitlyFinished = TRUE,
            !.lineup = [i \in 1..Len(g.lineup) |->
                          [g.lineup[i] EXCEPT !.playtimerStartTime = NoTime]]]

markGameAsFinishedOn(g, t) ==
    LET isRunning == g.timerStatus = "running" /\ Truthy(g.timerStartTime)
        finalElapsedSeconds ==
            IF isRunning THEN newElapsedSeconds(g, t) ELSE g.timerElapsedSeconds
        flushed(p) == IF isRunning THEN flushEntry(p, t) ELSE p
    IN [g EXCEPT
            !.timerStatus = "stopped", !.timerStartTime = NoTime,
            !.timerElapsedSeconds = finalElapsedSeconds,
            !.isExplicitlyFinished = TRUE,
            !.lineup = [i \in 1..Len(g.lineup) |->
                          [flushed(g.lineup[i]) EXCEPT !.playtimerStartTime = NoTime]]]

\* mutant: the player's timer is restarted when it already runs
startPlayerTimerOnRestarts(g, pid, t) ==
    [g EXCEPT !.lineup = [i \in 1..Len(g.lineup) |->
        LET p == g.lineup[i] IN
        IF p.id = pid /\ p.location = "field"
        THEN [p EXCEPT !.playtimerStartTime = t]
        ELSE p]]

startPlayerTimerOn(g, pid, t) ==
    [g EXCEPT !.lineup = [i \in 1..Len(g.lineup) |->
        LET p == g.lineup[i] IN
        IF p.id = pid /\ p.location = "field" /\ ~Truthy(p.playtimerStartTime)
        THEN [p EXCEPT !.playtimerStartTime = t]
        ELSE p]]

stopPlayerTimerOn(g, pid, t) ==
    [g EXCEPT !.lineup = [i \in 1..Len(g.lineup) |->
        LET p == g.lineup[i] IN
        IF p.id = pid /\ Truthy(p.playtimerStartTime)
        THEN [p EXCEPT
                !.playtimeSeconds =
                    RoundSeconds(p.playtimeSeconds * MsPerSecond + (t - p.playtimerStartTime)),
                !.playtimerStartTime = NoTime]
        ELSE p]]

\* mutant: the lineup is rebuilt from the game's old entries, not from the roster
resetGameLineupOnOldEntries(g, ps) ==
    [g EXCEPT
        !.lineup = createDefaultLineup(g.lineup), !.timerElapsedSeconds = 0,
        !.timerStartTime = NoTime, !.timerStatus = "stopped",
        !.isExplicitlyFinished = FALSE, !.homeScore = 0, !.awayScore = 0,
        !.events = << >>]

resetGameLineupOn(g, ps) ==
    [g EXCEPT
        !.lineup = createDefaultLineup(ps), !.timerElapsedSeconds = 0,
        !.timerStartTime = NoTime, !.timerStatus = "stopped",
        !.isExplicitlyFinished = FALSE, !.homeScore = 0, !.awayScore = 0,
        !.events = << >>]

isGameActive(g) ==
    g.timerStatus = "running" \/ (g.timerStatus = "stopped" /\ g.timerElapsedSeconds > 0)

substitutionEvent(g, inId, outId, t) ==
    [type |-> "substitution",
     team |-> IF g.location = "home" THEN "home" ELSE "away",
     scorerPlayerId |-> NULL, assistPlayerId |-> NULL,
     playerInId |-> inId, playerOutId |-> outId,
     gameSeconds |-> RoundSeconds(currentMs(g, t))]

\* the flush step of movePlayerInGame: decided by the sourceLocation argument
moveFlushes(p, src) ==
    src \in {"field", "inactive"} /\ Truthy(p.playtimerStartTime)

\* updatedPlaytime of movePlayerInGame
\* mutant: the move stores the last slice alone, forgetting earlier playtime
movePlaytimeLastSliceOnly(p, src, t) ==
    IF moveFlushes(p, src)
    THEN RoundSeconds(t - p.playtimerStartTime)
    ELSE p.playtimeSeconds

movePlaytime(p, src, t) ==
    IF moveFlushes(p, src)
    THEN RoundSeconds(p.playtimeSeconds * MsPerSecond + (t - p.playtimerStartTime))
    ELSE p.playtimeSeconds

\* updatedStartTime of movePlayerInGame
\* mutant: the start time is not cleared when the target is off the field
moveStartTimeKept(g, p, src, tgt, t) ==
    LET flushedStart == IF moveFlushes(p, src) THEN NoTime ELSE p.playtimerStartTime IN
    IF tgt = "field" /\ g.timerStatus = "running" /\ flushedStart = NoTime THEN t
    ELSE flushedStart

\* mutant: a move onto the field never starts the player's timer
moveStartTimeNeverStarts(g, p, src, tgt, t) ==
    LET flushedStart == IF moveFlushes(p, src) THEN NoTime ELSE p.playtimerStartTime IN
    IF tgt # "field" THEN NoTime ELSE flushedStart

moveStartTime(g, p, src, tgt, t) ==
    LET flushedStart == IF moveFlushes(p, src) THEN NoTime ELSE p.playtimerStartTime IN
    IF tgt = "field" /\ g.timerStatus = "running" /\ flushedStart = NoTime THEN t
    ELSE IF tgt # "field" THEN NoTime
    ELSE flushedStart

\* the two substitution cases of movePlayerInGame
isSubOn(g, src, tgt) == isGameActive(g) /\ src = "bench" /\ tgt = "field"

\* mutant: every move off the field counts as a substitution
isSubOffAnyTarget(g, src, tgt) == isGameActive(g) /\ src = "field" /\ tgt # "field"

isSubOff(g, src, tgt) == isGameActive(g) /\ src = "field" /\ tgt = "bench"

\* updatedEvents of movePlayerInGame
\* mutant: the substitution event is put in front of the log
moveEventsPrepended(g, pid, src, tgt, t) ==
    IF isSubOn(g, src, tgt) THEN <<substitutionEvent(g, pid, NULL, t)>> \o g.events
    ELSE IF isSubOff(g, src, tgt) THEN <<substitutionEvent(g, NULL, pid, t)>> \o g.events
    ELSE g.events

\* mutant: a substitution off the field is logged with the player as playerInId
moveEventsOutAsIn(g, pid, src, tgt, t) ==
    IF isSubOn(g, src, tgt) THEN Append(g.events, substitutionEvent(g, pid, NULL, t))
    ELSE IF isSubOff(g, src, tgt) THEN Append(g.events, substitutionEvent(g, pid, NULL, t))
    ELSE g.events

moveEvents(g, pid, src, tgt, t) ==
    IF isSubOn(g, src, tgt) THEN Append(g.events, substitutionEvent(g, pid, NULL, t))
    ELSE IF isSubOff(g, src, tgt) THEN Append(g.events, substitutionEvent(g, NULL, pid, t))
    ELSE g.events

\* movePlayerInGame on the lineup entry at index k
movePlayerOn(g, k, src, tgt, pos, t) ==
    LET p == g.lineup[k]
        playerState ==
            [p EXCEPT
                !.location = tgt,
                !.position = IF tgt = "field" THEN pos ELSE NULL,
                !.playtimeSeconds = movePlaytime(p, src, t),
                !.playtimerStartTime = moveStartTime(g, p, src, tgt, t),
                !.subbedOnCount =
                    IF isSubOn(g, src, tgt) THEN p.subbedOnCount + 1 ELSE p.subbedOnCount,
                !.subbedOffCount =
                    IF isSubOff(g, src, tgt) THEN p.subbedOffCount + 1 ELSE p.subbedOffCount]
    IN [g EXCEPT !.lineup = [g.lineup EXCEPT ![k] = playerState],
                 !.events = moveEvents(g, p.id, src, tgt, t)]

----------------------------------------------------------------------------
(* The planning lineup: what movePlayer, swapPlayers, resetLineup, the saved *)
(* lineups and loadLineup make of `players` and `savedLineups`.  A lineup    *)
(* name is a sequence of characters, so that trimming it is a computation.   *)

LineupNames == { << >>, <<" ">>, <<"a">>, <<" ", "a">>, <<"b">> }

\* String.prototype.trim on a name
RECURSIVE trimStart(_)
trimStart(name) ==
    IF name # << >> /\ Head(name) = " " THEN trimStart(Tail(name)) ELSE name

RECURSIVE trimEnd(_)
trimEnd(name) ==
    IF name # << >> /\ name[Len(name)] = " "
    THEN trimEnd(SubSeq(name, 1, Len(name) - 1)) ELSE name

trim(name) == trimEnd(trimStart(name))

movePlayerOnPlan(ps, id, tgt, pos) ==
    [i \in 1..Len(ps) |->
        IF ps[i].id = id
        THEN [ps[i] EXCEPT !.location = tgt,
                           !.position = IF tgt = "field" THEN pos ELSE NULL]
        ELSE ps[i]]

\* mutant: the first player takes the second one's slot, the second keeps it
swapPlayersOnOneWay(ps, id1, id2) ==
    LET p1Index == findIndex(ps, id1)
        p2Index == findIndex(ps, id2)
    IN IF p1Index = 0 \/ p2Index = 0 THEN ps
       ELSE [ps EXCEPT ![p1Index] = [ps[p1Index] EXCEPT
                                        !.location = ps[p2Index].location,
                                        !.position = ps[p2Index].position]]

swapPlayersOn(ps, id1, id2) ==
    LET p1Index == findIndex(ps, id1)
        p2Index == findIndex(ps, id2)
        p1 == ps[p1Index]
        p2 == ps[p2Index]
        newState1 == [ps EXCEPT ![p1Index] =
                        [p1 EXCEPT !.location = p2.location, !.position = p2.position]]
    IN IF p1Index = 0 \/ p2Index = 0 THEN ps
       ELSE [newState1 EXCEPT ![p2Index] =
                [p2 EXCEPT !.location = p1.location, !.position = p1.position]]

resetLineupOn(ps) ==
    [i \in 1..Len(ps) |-> [ps[i] EXCEPT !.location = "bench", !.position = NULL]]

\* lineupToSave of saveLineup
lineupToSave(name, ps) ==
    [name |-> trim(name),
     players |-> [i \in 1..Len(ps) |->
                    [id |-> ps[i].id, location |-> ps[i].location,
                     position |-> ps[i].position]]]

\* mutant: the new lineup is added and the one of the same name is kept
savedLineupsAfterSaveAppended(lineups, name, ps) ==
    Append(lineups, lineupToSave(name, ps))

savedLineupsAfterSave(lineups, name, ps) ==
    LET kept(l) == l.name # trim(name) IN
    Append(SelectSeq(lineups, kept), lineupToSave(name, ps))

savedLineupsAfterDelete(lineups, name) ==
    LET kept(l) == l.name # name IN SelectSeq(lineups, kept)

\* savedLineups.find(l => l.name === name): its index, 0 when there is none
RECURSIVE findLineupFrom(_, _, _)
findLineupFrom(lineups, name, i) ==
    IF i > Len(lineups) THEN 0
    ELSE IF lineups[i].name = name THEN i
    ELSE findLineupFrom(lineups, name, i + 1)

findLineup(lineups, name) == findLineupFrom(lineups, name, 1)

\* mutant: a player the lineup knows keeps the current place
playersAfterLoadKept(ps, lineupToLoad) ==
    [i \in 1..Len(ps) |->
        LET k == findIndex(lineupToLoad.players, ps[i].id) IN
        IF k # 0 THEN ps[i]
        ELSE [ps[i] EXCEPT !.location = "bench", !.position = NULL]]

\* the updater of loadLineup: savedPlayerStates.get(player.id) or the bench
playersAfterLoad(ps, lineupToLoad) ==
    [i \in 1..Len(ps) |->
        LET k == findIndex(lineupToLoad.players, ps[i].id) IN
        IF k # 0
        THEN [ps[i] EXCEPT !.location = lineupToLoad.players[k].location,
                           !.position = lineupToLoad.players[k].position]
        ELSE [ps[i] EXCEPT !.location = "bench", !.position = NULL]]

----------------------------------------------------------------------------
(* State *)

\* what loadFromLocalStorage('games', []) finds on mount: nothing, or a game
\* an earlier session created for the roster and left untouched
GamesOnMount ==
    { << >> } \cup { << newGame(GameId, StoredDate, loc, fetchedPlayers) >> : loc \in Teams }

\* what loadFromLocalStorage('savedLineups', []) finds on mount
LineupsOnMount == { << >>, << lineupToSave(<<"a">>, fetchedPlayers) >> }

\* TeamProvider as mounted: the useState initial values, the session the
\* Supabase client holds (none: nobody is signed in), getSession() asked and
\* not yet resolved
Init ==
    /\ now = MsPerSecond
    /\ today \in WallClockDays
    /\ players = << >>
    /\ games \in GamesOnMount
    /\ started = FALSE
    /\ runMs = 0
    /\ fieldMs = ZeroFieldMs
    /\ issued = PlayerIds
    /\ issuedGames = Len(games)
    /\ queries = << >>
    /\ alertShown = NULL
    /\ stored = games
    /\ storageOk = TRUE
    /\ savedLineups \in LineupsOnMount
    /\ storedLineups = savedLineups
    /\ loadReturned = NULL
    /\ lastSaved = << >>
    /\ session \in {UserId, NULL}
    /\ sessionAsked = TRUE
    /\ currentUser = NULL
    /\ teamData = NULL
    /\ teamLoading = TRUE
    /\ playersLoading = TRUE
    /\ fetches = << >>

\* mounted by a signed-in user over an empty localStorage
InitEmpty ==
    /\ Init
    /\ games = << >> /\ savedLineups = << >>
    /\ session = UserId

\* mounted by a signed-in user with a game in localStorage
InitStored ==
    /\ Init
    /\ games # << >> /\ savedLineups = << >>
    /\ session = UserId

\* ... the stored game being a home game
InitStoredHome ==
    /\ InitStored
    /\ games[1].location = "home"

\* the roster pages, the planning page and the schedule read no date of the
\* wall clock: their specifications are opened on the day the stored game is
\* dated
InitEmptyOnDate == InitEmpty /\ today = StoredDate

InitStoredHomeOnDate == InitStoredHome /\ today = StoredDate

hasGame(gid) == findIndex(games, gid) # 0
theGame == games[findIndex(games, GameId)]
entryOf(g, pid) == g.lineup[findIndex(g.lineup, pid)]

\* mutant: an id that matches no game selects the first game
selectedOrFirst(gid) ==
    IF \E i \in 1..Len(games) : games[i].id = gid
    THEN { i \in 1..Len(games) : games[i].id = gid }
    ELSE { i \in 1..Len(games) : i = 1 }

\* the games a handler's updater visits: prevGames[gameIndex], or the g of
\* prev.map(...) with g.id === gameId
selected(gid) == { i \in 1..Len(games) : games[i].id = gid }

\* the event log of every game stays within the model's cap
withinCap(gs) == \A i \in 1..Len(gs) : Len(gs[i].events) <= MaxEvents

withinLogCap(gs) == \A i \in 1..Len(gs) : Len(gs[i].events) <= MaxLogEvents

\* useEffect(() => saveToLocalStorage('games', games), [games]): it runs when
\* the handler's updater returned a new array (`rerendered`); setItem throwing
\* is caught and logged, and the item keeps its old value
saveToLocalStorage(rerendered) ==
    /\ stored' = IF rerendered /\ storageOk THEN games' ELSE stored
    /\ UNCHANGED storageOk

----------------------------------------------------------------------------
(* The wall clock *)

\* Spec's clock: the history of running time is not recorded
Tick ==
    \E d \in TickSteps :
        /\ now + d <= MsPerSecond + MaxTicks * d
        /\ now' = now + d
        /\ UNCHANGED today
        /\ UNCHANGED <<planVars, authVars, callVars>>
        /\ UNCHANGED <<players, games, started, runMs, fieldMs, issued, alertShown,
                       stored, storageOk>>

\* SpecSeconds' clock: records how long the clock ran and who was on field
TickSecond ==
    \E d \in WholeSecondSteps :
        /\ now + d <= MsPerSecond + MaxSeconds * d
        /\ now' = now + d
        /\ UNCHANGED today
        /\ LET running == hasGame(GameId) /\ theGame.timerStatus = "running" IN
           /\ runMs' = IF running THEN runMs + d ELSE runMs
           /\ fieldMs' = [p \in PlayerIds |->
                IF running /\ findIndex(theGame.lineup, p) # 0
                           /\ entryOf(theGame, p).location = "field"
                THEN fieldMs[p] + d ELSE fieldMs[p]]
        /\ UNCHANGED <<planVars, authVars, callVars>>
        /\ UNCHANGED <<players, games, started, issued, alertShown, stored, storageOk>>

\* SpecScenario's clock: Date.now() read five minutes later
ScenarioStepMs == 300 * MsPerSecond

ScenarioTick ==
    /\ now + ScenarioStepMs <= MsPerSecond + MaxScenarioTicks * ScenarioStepMs
    /\ now' = now + ScenarioStepMs
    /\ UNCHANGED today
    /\ UNCHANGED <<planVars, authVars, callVars>>
    /\ UNCHANGED <<players, games, started, runMs, fieldMs, issued, alertShown,
                   stored, storageOk>>

----------------------------------------------------------------------------
(* The handlers of TeamProvider *)

\* the history variables follow the game GameId
addGame(date, loc) ==
    /\ games' = gamesAfterAdd(games, newGame(nextGameUuid(issuedGames), date, loc, players))
    /\ issuedGames' = issuedGames + 1
    /\ IF nextGameUuid(issuedGames) = GameId
       THEN started' = FALSE /\ runMs' = 0 /\ fieldMs' = ZeroFieldMs
       ELSE UNCHANGED <<started, runMs, fieldMs>>
    /\ saveToLocalStorage(TRUE)
    /\ UNCHANGED <<planVars, authVars, queries>>
    /\ UNCHANGED <<now, today, players, issued, alertShown>>

\* the fields EditGameModal passes as updates
GameUpdates ==
    { [location |-> loc] : loc \in Teams } \cup { [date |-> d] : d \in GameDates }

updateGame(id, updates) ==
    /\ games' = gamesAfterUpdate(games, id, updates)
    /\ saveToLocalStorage(TRUE)
    /\ UNCHANGED <<planVars, authVars, callVars>>
    /\ UNCHANGED <<now, today, players, started, runMs, fieldMs, issued, alertShown>>

deleteGame(id) ==
    /\ games' = gamesAfterDelete(games, id)
    /\ saveToLocalStorage(TRUE)
    /\ UNCHANGED <<planVars, authVars, callVars>>
    /\ UNCHANGED <<now, today, players, started, runMs, fieldMs, issued, alertShown>>

\* the number of games created stays within the model's cap
withinGames(n) == n <= MaxGames

addGameEvent(gid, team, scorer, assist) ==
    /\ games' = [i \in 1..Len(games) |->
            IF i \in selected(gid)
            THEN addGameEventOn(games[i], team, scorer, assist, now)
            ELSE games[i]]
    /\ saveToLocalStorage(hasGame(gid))
    /\ UNCHANGED <<planVars, authVars, callVars>>
    /\ UNCHANGED <<now, today, players, started, runMs, fieldMs, issued, alertShown>>

removeLastGameEvent(gid, team) ==
    /\ games' = [i \in 1..Len(games) |->
            IF i \in selected(gid)
            THEN removeLastGameEventOn(games[i], team)
            ELSE games[i]]
    /\ saveToLocalStorage(games' # games)
    /\ UNCHANGED <<planVars, authVars, callVars>>
    /\ UNCHANGED <<now, today, players, started, runMs, fieldMs, issued, alertShown>>

\* mutant: a finished game is started like any other
canStartAlways(g) == TRUE

canStart(g) == ~g.isExplicitlyFinished

startGameTimer(gid) ==
    /\ games' = [i \in 1..Len(games) |->
            IF i \in selected(gid) /\ canStart(games[i])
            THEN startGameTimerOn(games[i], now, getCurrentDate)
            ELSE games[i]]
    /\ started' = (started \/ (gid = GameId /\ hasGame(gid) /\ canStart(theGame)))
    /\ saveToLocalStorage(TRUE)
    /\ UNCHANGED <<planVars, authVars, callVars>>
    /\ UNCHANGED <<now, today, players, runMs, fieldMs, issued, alertShown>>

\* mutant: the clock is stopped whatever its state
canStopAlways(g) == TRUE

canStop(g) == g.timerStatus = "running" /\ Truthy(g.timerStartTime)

stopGameTimer(gid) ==
    /\ games' = [i \in 1..Len(games) |->
            IF i \in selected(gid) /\ canStop(games[i])
            THEN stopGameTimerOn(games[i], now)
            ELSE games[i]]
    /\ saveToLocalStorage(TRUE)
    /\ UNCHANGED <<planVars, authVars, callVars>>
    /\ UNCHANGED <<now, today, players, started, runMs, fieldMs, issued, alertShown>>

markGameAsFinished(gid) ==
    /\ games' = [i \in 1..Len(games) |->
            IF i \in selected(gid)
            THEN markGameAsFinishedOn(games[i], now)
            ELSE games[i]]
    /\ saveToLocalStorage(TRUE)
    /\ UNCHANGED <<planVars, authVars, callVars>>
    /\ UNCHANGED <<now, today, players, started, runMs, fieldMs, issued, alertShown>>

canStartPlayerTimer(g) == g.timerStatus = "running"

startPlayerTimerInGame(gid, pid) ==
    /\ games' = [i \in 1..Len(games) |->
            IF i \in selected(gid) /\ canStartPlayerTimer(games[i])
            THEN startPlayerTimerOn(games[i], pid, now)
            ELSE games[i]]
    /\ saveToLocalStorage(TRUE)
    /\ UNCHANGED <<planVars, authVars, callVars>>
    /\ UNCHANGED <<now, today, players, started, runMs, fieldMs, issued, alertShown>>

stopPlayerTimerInGame(gid, pid) ==
    /\ games' = [i \in 1..Len(games) |->
            IF i \in selected(gid)
            THEN stopPlayerTimerOn(games[i], pid, now)
            ELSE games[i]]
    /\ saveToLocalStorage(games' # games)
    /\ UNCHANGED <<planVars, authVars, callVars>>
    /\ UNCHANGED <<now, today, players, started, runMs, fieldMs, issued, alertShown>>

resetGameLineup(gid) ==
    /\ games' = [i \in 1..Len(games) |->
            IF i \in selected(gid)
            THEN resetGameLineupOn(games[i], players)
            ELSE games[i]]
    /\ IF gid = GameId /\ hasGame(gid)
       THEN started' = FALSE /\ runMs' = 0 /\ fieldMs' = ZeroFieldMs
       ELSE UNCHANGED <<started, runMs, fieldMs>>
    /\ saveToLocalStorage(TRUE)
    /\ UNCHANGED <<planVars, authVars, callVars>>
    /\ UNCHANGED <<now, today, players, issued, alertShown>>

hasEntry(g, pid) == findIndex(g.lineup, pid) # 0

movePlayerInGame(gid, pid, src, tgt, pos) ==
    /\ games' = [i \in 1..Len(games) |->
            IF i \in selected(gid) /\ hasEntry(games[i], pid)
            THEN movePlayerOn(games[i], findIndex(games[i].lineup, pid), src, tgt, pos, now)
            ELSE games[i]]
    /\ saveToLocalStorage(hasGame(gid) /\ hasEntry(games[findIndex(games, gid)], pid))
    /\ UNCHANGED <<planVars, authVars, callVars>>
    /\ UNCHANGED <<now, today, players, started, runMs, fieldMs, issued, alertShown>>

\* the environment: localStorage.setItem starts or stops throwing (quota
\* exceeded, storage disabled)
localStorageFlips ==
    /\ storageOk' = ~storageOk
    /\ UNCHANGED <<planVars, authVars, callVars>>
    /\ UNCHANGED <<now, today, players, games, started, runMs, fieldMs, issued, alertShown, stored>>

\* The roster handlers are async: the call checks its guard, sets
\* playersLoading and sends its query; the rest of the function runs when the
\* query has answered, with whatever the state is then.
removeQuery(i) == SubSeq(queries, 1, i - 1) \o SubSeq(queries, i + 1, Len(queries))

isAwaited(i, op) == i \in 1..Len(queries) /\ queries[i].op = op

addPlayer(firstName, number) ==
    /\ IF currentUser = NULL \/ teamData = NULL
       THEN /\ alertShown' = "guard"
            /\ UNCHANGED <<playersLoading, queries>>
       ELSE /\ playersLoading' = TRUE
            /\ queries' = Append(queries,
                  [op |-> "insert", firstName |-> firstName, number |-> number])
            /\ UNCHANGED alertShown
    /\ UNCHANGED <<session, sessionAsked, currentUser, teamData, teamLoading, fetches>>
    /\ UNCHANGED <<planVars, issuedGames>>
    /\ UNCHANGED <<now, today, players, games, started, runMs, fieldMs, issued, stored, storageOk>>

\* the insert of call i answers: with the new row, or with an error
addPlayerAnswer(i, error) ==
    /\ isAwaited(i, "insert")
    /\ players' = playersAfterAdd(players,
                       newPlayer(nextUuid(issued), queries[i].firstName, queries[i].number),
                       error)
    /\ issued' = IF error # NULL THEN issued ELSE issued \cup {nextUuid(issued)}
    /\ alertShown' = IF error # NULL THEN "error" ELSE alertShown
    /\ playersLoading' = FALSE
    /\ queries' = removeQuery(i)
    /\ lastSaved' = << >>
    /\ UNCHANGED <<session, sessionAsked, currentUser, teamData, teamLoading, fetches>>
    /\ UNCHANGED <<savedLineups, storedLineups, loadReturned, issuedGames>>
    /\ UNCHANGED <<now, today, games, started, runMs, fieldMs, stored, storageOk>>

updatePlayer(id, updates) ==
    /\ IF teamData = NULL
       THEN UNCHANGED <<playersLoading, queries>>
       ELSE /\ playersLoading' = TRUE
            /\ queries' = Append(queries, [op |-> "update", id |-> id, updates |-> updates])
    /\ UNCHANGED <<session, sessionAsked, currentUser, teamData, teamLoading, fetches>>
    /\ UNCHANGED <<planVars, issuedGames>>
    /\ UNCHANGED <<now, today, players, games, started, runMs, fieldMs, issued, alertShown,
                   stored, storageOk>>

updatePlayerAnswer(i, error) ==
    /\ isAwaited(i, "update")
    /\ players' = playersAfterUpdate(players, queries[i].id, queries[i].updates, error)
    /\ alertShown' = IF error # NULL THEN "error" ELSE alertShown
    /\ playersLoading' = FALSE
    /\ queries' = removeQuery(i)
    /\ lastSaved' = << >>
    /\ UNCHANGED <<session, sessionAsked, currentUser, teamData, teamLoading, fetches>>
    /\ UNCHANGED <<savedLineups, storedLineups, loadReturned, issuedGames>>
    /\ UNCHANGED <<now, today, games, started, runMs, fieldMs, issued, stored, storageOk>>

deletePlayer(id) ==
    /\ IF teamData = NULL
       THEN UNCHANGED <<playersLoading, queries>>
       ELSE /\ playersLoading' = TRUE
            /\ queries' = Append(queries, [op |-> "delete", id |-> id])
    /\ UNCHANGED <<session, sessionAsked, currentUser, teamData, teamLoading, fetches>>
    /\ UNCHANGED <<planVars, issuedGames>>
    /\ UNCHANGED <<now, today, players, games, started, runMs, fieldMs, issued, alertShown,
                   stored, storageOk>>

deletePlayerAnswer(i, error) ==
    /\ isAwaited(i, "delete")
    /\ players' = playersAfterDelete(players, queries[i].id, error)
    /\ alertShown' = IF error # NULL THEN "error" ELSE alertShown
    /\ playersLoading' = FALSE
    /\ queries' = removeQuery(i)
    /\ lastSaved' = << >>
    /\ UNCHANGED <<session, sessionAsked, currentUser, teamData, teamLoading, fetches>>
    /\ UNCHANGED <<savedLineups, storedLineups, loadReturned, issuedGames>>
    /\ UNCHANGED <<now, today, games, started, runMs, fieldMs, issued, stored, storageOk>>

\* the useEffect on [savedLineups]: a new array is written to localStorage
saveLineupsToLocalStorage(rerendered) ==
    storedLineups' = IF rerendered /\ storageOk THEN savedLineups' ELSE storedLineups

movePlayer(id, tgt, pos) ==
    /\ players' = movePlayerOnPlan(players, id, tgt, pos)
    /\ UNCHANGED <<planVars, authVars, callVars>>
    /\ UNCHANGED <<now, today, games, started, runMs, fieldMs, issued, alertShown, stored,
                   storageOk>>

swapPlayers(id1, id2) ==
    /\ players' = swapPlayersOn(players, id1, id2)
    /\ UNCHANGED <<planVars, authVars, callVars>>
    /\ UNCHANGED <<now, today, games, started, runMs, fieldMs, issued, alertShown, stored,
                   storageOk>>

resetLineup ==
    /\ players' = resetLineupOn(players)
    /\ UNCHANGED <<planVars, authVars, callVars>>
    /\ UNCHANGED <<now, today, games, started, runMs, fieldMs, issued, alertShown, stored,
                   storageOk>>

\* a blank name is refused with alert("Please enter a name.") before any setState
saveLineup(name) ==
    /\ IF trim(name) = << >>
       THEN UNCHANGED <<savedLineups, storedLineups>>
       ELSE /\ savedLineups' = savedLineupsAfterSave(savedLineups, name, players)
            /\ saveLineupsToLocalStorage(TRUE)
    /\ lastSaved' = IF trim(name) = << >> THEN << >>
                    ELSE << [name |-> name, players |-> players] >>
    /\ UNCHANGED <<loadReturned, authVars, callVars>>
    /\ UNCHANGED <<now, today, players, games, started, runMs, fieldMs, issued, alertShown,
                   stored, storageOk>>

deleteLineup(name) ==
    /\ savedLineups' = savedLineupsAfterDelete(savedLineups, name)
    /\ saveLineupsToLocalStorage(TRUE)
    /\ lastSaved' = << >>
    /\ UNCHANGED <<loadReturned, authVars, callVars>>
    /\ UNCHANGED <<now, today, players, games, started, runMs, fieldMs, issued, alertShown,
                   stored, storageOk>>

loadLineup(name) ==
    /\ LET k == findLineup(savedLineups, name) IN
       IF k = 0
       THEN /\ loadReturned' = "false"
            /\ UNCHANGED players
       ELSE /\ players' = playersAfterLoad(players, savedLineups[k])
            /\ loadReturned' = "true"
    /\ lastSaved' = << >>
    /\ UNCHANGED <<savedLineups, storedLineups, authVars, callVars>>
    /\ UNCHANGED <<now, today, games, started, runMs, fieldMs, issued, alertShown, stored,
                   storageOk>>

\* a move as the live game page issues it: the source is the stored location
movePlayerFromStored(gid, pid, tgt, pos) ==
    /\ hasGame(gid) /\ hasEntry(games[findIndex(games, gid)], pid)
    /\ movePlayerInGame(gid, pid, entryOf(games[findIndex(games, gid)], pid).location,
                        tgt, pos)

----------------------------------------------------------------------------
(* Specifications *)

\* The fetch effect of TeamProvider.  A call of fetchTeamAndPlayers for a user
\* awaits the teams query, then the players query; each entry of `fetches` is
\* one call and the query it awaits.
fetchTeamAndPlayers(user) ==
    IF user = NULL
    THEN /\ teamData' = NULL
         /\ teamLoading' = FALSE
         /\ players' = << >>
         /\ playersLoading' = FALSE
         /\ lastSaved' = << >>
         /\ UNCHANGED fetches
    ELSE /\ teamLoading' = TRUE
         /\ playersLoading' = TRUE
         /\ fetches' = Append(fetches, [user |-> user, pc |-> "teams"])
         /\ UNCHANGED <<teamData, players, lastSaved>>

removeFetch(i) == SubSeq(fetches, 1, i - 1) \o SubSeq(fetches, i + 1, Len(fetches))

\* supabase.auth.getSession() resolves with the session as it is then
getSessionResolves ==
    /\ sessionAsked
    /\ sessionAsked' = FALSE
    /\ currentUser' = session
    /\ fetchTeamAndPlayers(session)
    /\ UNCHANGED <<session, savedLineups, storedLineups, loadReturned, callVars>>
    /\ UNCHANGED <<now, today, games, started, runMs, fieldMs, issued, alertShown, stored,
                   storageOk>>

\* the onAuthStateChange listener is called with the new session (null: signed out)
authStateChange(s) ==
    /\ session' = s
    /\ currentUser' = s
    /\ fetchTeamAndPlayers(s)
    /\ UNCHANGED <<sessionAsked, savedLineups, storedLineups, loadReturned, callVars>>
    /\ UNCHANGED <<now, today, games, started, runMs, fieldMs, issued, alertShown, stored,
                   storageOk>>

\* the fetch calls in flight stay within the model's cap
withinFetches(fs) == Len(fs) <= MaxFetches

TeamsOutcomes == {"ok", "PGRST116", "error"}

\* the teams query of call i answers
teamsAnswer(i, outcome) ==
    /\ i \in 1..Len(fetches)
    /\ fetches[i].pc = "teams"
    /\ teamLoading' = FALSE
    /\ IF outcome = "ok"
       THEN /\ teamData' = fetchedTeamData
            /\ fetches' = [fetches EXCEPT ![i].pc = "players"]
            /\ UNCHANGED <<players, playersLoading, lastSaved>>
       ELSE /\ teamData' = IF outcome = "error" THEN NULL ELSE teamData
            /\ players' = << >>
            /\ playersLoading' = FALSE
            /\ lastSaved' = << >>
            /\ fetches' = removeFetch(i)
    /\ UNCHANGED <<session, sessionAsked, currentUser>>
    /\ UNCHANGED <<savedLineups, storedLineups, loadReturned, callVars>>
    /\ UNCHANGED <<now, today, games, started, runMs, fieldMs, issued, alertShown, stored,
                   storageOk>>

PlayersOutcomes == {"ok", "error"}

\* the players query of call i answers; the rows it returns are the two
\* players of the team
playersAnswer(i, outcome) ==
    /\ i \in 1..Len(fetches)
    /\ fetches[i].pc = "players"
    /\ players' = IF outcome = "ok" THEN fetchedPlayers ELSE << >>
    /\ playersLoading' = FALSE
    /\ lastSaved' = << >>
    /\ fetches' = removeFetch(i)
    /\ UNCHANGED <<session, sessionAsked, currentUser, teamData, teamLoading>>
    /\ UNCHANGED <<savedLineups, storedLineups, loadReturned, callVars>>
    /\ UNCHANGED <<now, today, games, started, runMs, fieldMs, issued, alertShown, stored,
                   storageOk>>

\* the fetch effect answered without an error: the app as the user sees it
\* once the loading screen is gone
Mount ==
    \/ getSessionResolves
    \/ \E i \in 1..MaxFetches : teamsAnswer(i, "ok")
    \/ \E i \in 1..MaxFetches : playersAnswer(i, "ok")

\* the game pages are used once the roster has arrived
rosterArrived == currentUser # NULL /\ ~teamLoading /\ ~playersLoading

\* The operations are called on the game (a home game) and on one roster
\* player.
CalledPlayer == "p1"

\* newPosition is read only when the target is the field
MoveArgs ==
    { [src |-> s, tgt |-> "field", pos |-> q] : s \in Locations, q \in Positions }
      \cup { [src |-> s, tgt |-> t, pos |-> NULL] :
                s \in Locations, t \in {"bench", "inactive"} }

\* the moves of Spec and SpecClock: from every source, onto one spot of the
\* field, to the bench, to inactive
SpotMoveArgs == { a \in MoveArgs : a.pos # "posB" }

\* Every game handler, with goals of either team, while the wall clock
\* advances in quarter seconds; the day of the wall clock is any of
\* WallClockDays.
Next ==
    \/ Mount
    \/ Tick
    \/ rosterArrived /\ \E team \in Teams :
          addGameEvent(GameId, team, NULL, NULL) /\ withinCap(games')
    \/ rosterArrived /\ \E team \in Teams : removeLastGameEvent(GameId, team)
    \/ rosterArrived /\ startGameTimer(GameId)
    \/ rosterArrived /\ stopGameTimer(GameId)
    \/ rosterArrived /\ markGameAsFinished(GameId)
    \/ rosterArrived /\ startPlayerTimerInGame(GameId, CalledPlayer)
    \/ rosterArrived /\ stopPlayerTimerInGame(GameId, CalledPlayer)
    \/ rosterArrived /\ resetGameLineup(GameId)
    \/ rosterArrived /\ \E a \in SpotMoveArgs :
          movePlayerInGame(GameId, CalledPlayer, a.src, a.tgt, a.pos) /\ withinCap(games')

Spec == InitStoredHome /\ [][Next]_vars

\* the calls that carry a stale game id or player id
StaleCalls ==
    \/ \E team \in Teams : addGameEvent(GhostGame, team, NULL, NULL)
    \/ \E team \in Teams : removeLastGameEvent(GhostGame, team)
    \/ startGameTimer(GhostGame)
    \/ stopGameTimer(GhostGame)
    \/ markGameAsFinished(GhostGame)
    \/ \E gid \in GameIds, pid \in {CalledPlayer, GhostPlayer} :
          (gid = GhostGame \/ pid = GhostPlayer) /\ startPlayerTimerInGame(gid, pid)
    \/ \E gid \in GameIds, pid \in {CalledPlayer, GhostPlayer} :
          (gid = GhostGame \/ pid = GhostPlayer) /\ stopPlayerTimerInGame(gid, pid)
    \/ resetGameLineup(GhostGame)
    \/ \E gid \in GameIds, pid \in {CalledPlayer, GhostPlayer}, a \in SpotMoveArgs :
          (gid = GhostGame \/ pid = GhostPlayer)
            /\ movePlayerInGame(gid, pid, a.src, a.tgt, a.pos)
            /\ withinCap(games')


\* clock operations and moves only, at whole-second instants, every move
\* passing the stored location as its source
NextSeconds ==
    \/ Mount
    \/ TickSecond
    \/ rosterArrived /\ startGameTimer(GameId)
    \/ rosterArrived /\ stopGameTimer(GameId)
    \/ rosterArrived /\ markGameAsFinished(GameId)
    \/ rosterArrived /\ \E a \in MoveArgs :
          movePlayerFromStored(GameId, CalledPlayer, a.tgt, a.pos) /\ withinCap(games')

SpecSeconds == InitStored /\ [][NextSeconds]_vars

\* The game handlers without the two per-player timer handlers, every goal
\* scored by the player.
NextClock ==
    \/ Mount
    \/ Tick
    \/ rosterArrived /\ \E team \in Teams :
          addGameEvent(GameId, team, CalledPlayer, NULL) /\ withinCap(games')
    \/ rosterArrived /\ \E team \in Teams : removeLastGameEvent(GameId, team)
    \/ rosterArrived /\ startGameTimer(GameId)
    \/ rosterArrived /\ stopGameTimer(GameId)
    \/ rosterArrived /\ markGameAsFinished(GameId)
    \/ rosterArrived /\ resetGameLineup(GameId)
    \/ rosterArrived /\ \E a \in SpotMoveArgs :
          movePlayerInGame(GameId, CalledPlayer, a.src, a.tgt, a.pos) /\ withinCap(games')

SpecClock == InitStoredHome /\ [][NextClock]_vars

\* the moves of SpecLog: onto one spot of the field, to the bench, to inactive
LogMoveArgs == { a \in SpotMoveArgs : a.src = "bench" }

\* the moves of SpecScenario and SpecReset: onto one spot of the field, back
\* to the bench
BenchFieldMoveArgs == { a \in LogMoveArgs : a.tgt # "inactive" }

\* A game played in five-minute steps: the clock is started and stopped and
\* the player moved as the live game page moves players.
NextScenario ==
    \/ Mount
    \/ ScenarioTick
    \/ rosterArrived /\ startGameTimer(GameId)
    \/ rosterArrived /\ stopGameTimer(GameId)
    \/ rosterArrived /\ \E a \in BenchFieldMoveArgs :
          movePlayerFromStored(GameId, CalledPlayer, a.tgt, a.pos) /\ withinCap(games')

SpecScenario == InitStoredHome /\ [][NextScenario]_vars

\* A game played in five-minute steps with goals logged and taken back; the
\* log holds one event more than in Spec.
withinTimelineCap(gs) == \A i \in 1..Len(gs) : Len(gs[i].events) <= MaxEvents + 1

NextTimeline ==
    \/ Mount
    \/ ScenarioTick
    \/ rosterArrived /\ addGameEvent(GameId, "home", NULL, NULL) /\ withinTimelineCap(games')
    \/ rosterArrived /\ removeLastGameEvent(GameId, "home")
    \/ rosterArrived /\ startGameTimer(GameId)
    \/ rosterArrived /\ stopGameTimer(GameId)
    \/ rosterArrived /\ markGameAsFinished(GameId)
    \/ rosterArrived /\ \E a \in LogMoveArgs :
          movePlayerFromStored(GameId, CalledPlayer, a.tgt, a.pos)
            /\ withinTimelineCap(games')

SpecTimeline == InitStoredHome /\ [][NextTimeline]_vars

NextAuth ==
    \/ getSessionResolves
    \/ \E s \in {UserId, NULL} : authStateChange(s) /\ withinFetches(fetches')
    \/ \E i \in 1..MaxFetches, outcome \in TeamsOutcomes : teamsAnswer(i, outcome)
    \/ \E i \in 1..MaxFetches, outcome \in PlayersOutcomes : playersAnswer(i, outcome)

SpecAuth == Init /\ [][NextAuth]_vars

\* The planning page: players are placed, swapped and sent back to the bench,
\* lineups are saved, loaded and deleted under every name, while the roster
\* arrives.
PlanArgs ==
    { [tgt |-> "field", pos |-> q] : q \in Positions } \cup { [tgt |-> "bench", pos |-> NULL] }

PlanIds == PlayerIds \cup {GhostPlayer}

NextPlanning ==
    \/ Mount
    \/ \E id \in PlanIds, a \in PlanArgs : movePlayer(id, a.tgt, a.pos)
    \/ \E id1 \in PlanIds, id2 \in PlanIds : swapPlayers(id1, id2)
    \/ resetLineup
    \/ \E name \in LineupNames : saveLineup(name)
    \/ \E name \in LineupNames : deleteLineup(name)
    \/ \E name \in LineupNames : loadLineup(name)

SpecPlanning == InitStoredHomeOnDate /\ [][NextPlanning]_vars

\* the stale calls among calls that find their game and player, at one
\* wall-clock instant
NextStale ==
    \/ Mount
    \/ StaleCalls
    \/ rosterArrived /\ addGameEvent(GameId, "home", CalledPlayer, NULL) /\ withinCap(games')
    \/ rosterArrived /\ startGameTimer(GameId)
    \/ rosterArrived /\ stopGameTimer(GameId)
    \/ rosterArrived /\ markGameAsFinished(GameId)
    \/ rosterArrived /\ resetGameLineup(GameId)
    \/ rosterArrived /\ \E a \in LogMoveArgs :
          movePlayerFromStored(GameId, CalledPlayer, a.tgt, a.pos) /\ withinCap(games')

SpecStale == InitStoredHome /\ [][NextStale]_vars

\* the event log: every handler at one wall-clock instant, every move passing
\* the stored location as its source, the log growing to MaxLogEvents entries
NextLog ==
    \/ Mount
    \/ rosterArrived /\ \E scorer \in {CalledPlayer, NULL} :
          addGameEvent(GameId, "home", scorer, NULL) /\ withinLogCap(games')
    \/ rosterArrived /\ addGameEvent(GameId, "away", NULL, NULL) /\ withinLogCap(games')
    \/ rosterArrived /\ \E team \in Teams : removeLastGameEvent(GameId, team)
    \/ rosterArrived /\ startGameTimer(GameId)
    \/ rosterArrived /\ stopGameTimer(GameId)
    \/ rosterArrived /\ markGameAsFinished(GameId)
    \/ rosterArrived /\ startPlayerTimerInGame(GameId, CalledPlayer)
    \/ rosterArrived /\ stopPlayerTimerInGame(GameId, CalledPlayer)
    \/ rosterArrived /\ resetGameLineup(GameId)
    \/ rosterArrived /\ \E a \in LogMoveArgs :
          movePlayerFromStored(GameId, CalledPlayer, a.tgt, a.pos)
            /\ withinLogCap(games')

SpecLog == InitStoredHome /\ [][NextLog]_vars

\* the answers of a Supabase call: no error, or an error
SupabaseErrors == {NULL, "error"}

\* the values EditPlayerModal passes as updates
PlayerUpdates ==
    { [first_name |-> n] : n \in {"dee"} } \cup { [number |-> x] : x \in {"9", ""} }

\* the cap on the rows addPlayer inserts and on the calls in flight
withinRoster(ids, qs) ==
    /\ Cardinality(ids) <= Cardinality(PlayerIds) + MaxAdded
    /\ Len(qs) <= MaxQueries

\* the roster fetched and edited, with up to MaxQueries calls awaiting their
\* answers at once, while the stored game has a goal logged
NextRoster ==
    \/ Mount
    \/ addPlayer("bob", "") /\ withinRoster(issued', queries')
    \/ \E u \in PlayerUpdates : updatePlayer(CalledPlayer, u) /\ withinRoster(issued', queries')
    \/ \E id \in {CalledPlayer, UuidPool[1]} :
          deletePlayer(id) /\ withinRoster(issued', queries')
    \/ \E i \in 1..MaxQueries, error \in SupabaseErrors :
          addPlayerAnswer(i, error) /\ withinRoster(issued', queries')
    \/ \E i \in 1..MaxQueries, error \in SupabaseErrors : updatePlayerAnswer(i, error)
    \/ \E i \in 1..MaxQueries, error \in SupabaseErrors : deletePlayerAnswer(i, error)
    \/ addGameEvent(GameId, "home", CalledPlayer, "p2") /\ withinCap(games')

SpecRoster == InitStoredHomeOnDate /\ [][NextRoster]_vars

\* a stored game played, once the roster has arrived, while the wall clock
\* advances and the roster gains a player, one insert at a time: the game is
\* reset before the players query has answered, and before and after the
\* insert has, with time on its clock and in its ledger
NextReset ==
    \/ Mount
    \/ Tick
    \/ rosterArrived /\ queries = << >> /\ addPlayer("bob", "") /\ withinRoster(issued', queries')
    \/ \E i \in 1..MaxQueries : addPlayerAnswer(i, NULL) /\ withinRoster(issued', queries')
    \/ rosterArrived /\ addGameEvent(GameId, "home", CalledPlayer, "p2") /\ withinCap(games')
    \/ rosterArrived /\ startGameTimer(GameId)
    \/ rosterArrived /\ stopGameTimer(GameId)
    \/ rosterArrived /\ markGameAsFinished(GameId)
    \/ resetGameLineup(GameId)
    \/ rosterArrived /\ \E a \in BenchFieldMoveArgs :
          movePlayerFromStored(GameId, CalledPlayer, a.tgt, a.pos) /\ withinCap(games')

SpecReset == InitStoredHome /\ [][NextReset]_vars

\* The schedule: games are created while the roster arrives and while a
\* player is being deleted, edited and deleted, and the first one has a goal
\* logged.
NextSchedule ==
    \/ Mount
    \/ deletePlayer(CalledPlayer) /\ withinRoster(issued', queries')
    \/ \E i \in 1..MaxQueries : deletePlayerAnswer(i, NULL)
    \/ \E d \in GameDates, loc \in Teams : addGame(d, loc) /\ withinGames(issuedGames')
    \/ \E id \in {GameId, GameUuidPool[2], GhostGame}, u \in GameUpdates : updateGame(id, u)
    \/ \E id \in {GameId, GameUuidPool[2], GhostGame} : deleteGame(id)
    \/ addGameEvent(GameId, "home", NULL, NULL) /\ withinCap(games')

SpecSchedule == InitEmptyOnDate /\ [][NextSchedule]_vars

\* the game handlers at one wall-clock instant, over a localStorage whose
\* writes may throw
NextStorage ==
    \/ Mount
    \/ localStorageFlips
    \/ rosterArrived /\ \E team \in Teams : addGameEvent(GameId, team, NULL, NULL) /\ withinCap(games')
    \/ rosterArrived /\ \E team \in Teams : removeLastGameEvent(GameId, team)
    \/ rosterArrived /\ startGameTimer(GameId)
    \/ rosterArrived /\ stopGameTimer(GameId)
    \/ rosterArrived /\ markGameAsFinished(GameId)
    \/ rosterArrived /\ resetGameLineup(GameId)
    \/ rosterArrived /\ \E a \in LogMoveArgs :
          movePlayerFromStored(GameId, CalledPlayer, a.tgt, a.pos) /\ withinCap(games')

SpecStorage == InitStoredHome /\ [][NextStorage]_vars

----------------------------------------------------------------------------
(* Vocabulary of the properties *)

\* number of goal events of `team` in an event log
RECURSIVE goalCount(_, _)
goalCount(events, team) ==
    IF events = << >> THEN 0
    ELSE (IF Head(events).type = "goal" /\ Head(events).team = team THEN 1 ELSE 0)
           + goalCount(Tail(events), team)

\* the step keeps the game GameId in place
sameGame == hasGame(GameId) /\ hasGame(GameId)' /\ Len(games') = Len(games)

theEntry == entryOf(theGame, CalledPlayer)

----------------------------------------------------------------------------
(* C1: in every reachable state of a game created by addGame, homeScore is  *)
(* the number of goal events of team home in its events and awayScore the   *)
(* number of goal events of team away.                                      *)
ScoresCountGoalEvents ==
    \A i \in 1..Len(games) :
        /\ games[i].homeScore = goalCount(games[i].events, "home")
        /\ games[i].awayScore = goalCount(games[i].events, "away")

\* an away goal logged on a game whose clock has been started
ScoresCountGoalEventsWitness ==
    /\ hasGame(GameId) /\ started
    /\ theGame.awayScore = 1 /\ theGame.homeScore = 0
    /\ Len(theGame.events) = 1 /\ theGame.events[1].type = "goal"

----------------------------------------------------------------------------
(* C2: for every lineup entry, playtimeSeconds never decreases in a step of *)
(* any handler at a non-decreasing wall clock; only a resetGameLineup step  *)
(* may lower it.                                                            *)
PlaytimeLowered ==
    \E i \in 1..Len(games) :
        /\ i <= Len(games')
        /\ \E k \in 1..Len(games[i].lineup) :
              /\ k <= Len(games'[i].lineup)
              /\ games'[i].lineup[k].id = games[i].lineup[k].id
              /\ games'[i].lineup[k].playtimeSeconds < games[i].lineup[k].playtimeSeconds

PlaytimeOnlyResetLowers ==
    [][PlaytimeLowered => resetGameLineup(GameId)]_vars

\* a second slice running on top of playtime flushed by an earlier stop
PlaytimeOnlyResetLowersWitness ==
    /\ hasGame(GameId) /\ hasEntry(theGame, CalledPlayer)
    /\ theEntry.playtimeSeconds >= 1
    /\ theEntry.playtimerStartTime # NoTime
    /\ theGame.timerElapsedSeconds >= 1

----------------------------------------------------------------------------
(* C3: the current game time, timerElapsedSeconds plus (now -               *)
(* timerStartTime) while running, never decreases in a step of              *)
(* startGameTimer, stopGameTimer, markGameAsFinished, movePlayerInGame,     *)
(* addGameEvent or removeLastGameEvent, from any clock state; only          *)
(* resetGameLineup may lower it.                                            *)
GameTimeNeverDecreases ==
    [][sameGame =>
          \/ currentMs(theGame', now') >= currentMs(theGame, now)
          \/ resetGameLineup(GameId)]_vars

----------------------------------------------------------------------------
(* C4: with every timestamp a whole second, timerElapsedSeconds after       *)
(* markGameAsFinished is the total wall-clock time during which timerStatus *)
(* was running.                                                             *)
FinishedElapsedIsRunningTime ==
    (hasGame(GameId) /\ theGame.isExplicitlyFinished)
        => theGame.timerElapsedSeconds * MsPerSecond = runMs

----------------------------------------------------------------------------
(* C5: with every timestamp a whole second and every move passing the       *)
(* stored location as its source, whenever the clock is stopped each        *)
(* player's playtimeSeconds is the total time the player's location was     *)
(* field while timerStatus was running.                                     *)
StoppedPlaytimeIsFieldTime ==
    (hasGame(GameId) /\ theGame.timerStatus = "stopped")
        => \A k \in 1..Len(theGame.lineup) :
              theGame.lineup[k].playtimeSeconds * MsPerSecond
                  = fieldMs[theGame.lineup[k].id]

----------------------------------------------------------------------------
(* C6: when movePlayerInGame moves a player whose stored location is field  *)
(* and whose playtimerStartTime is non-null to bench or inactive, the       *)
(* player's playtimeSeconds afterwards is its prior value plus (now -       *)
(* playtimerStartTime), rounded as the code rounds, for every value of the  *)
(* sourceLocation argument.                                                 *)
MoveOffFieldFlushesSlice ==
    [][\A a \in MoveArgs :
          ( /\ a.tgt \in {"bench", "inactive"}
            /\ now' = now
            /\ hasGame(GameId) /\ hasEntry(theGame, CalledPlayer)
            /\ theEntry.location = "field"
            /\ theEntry.playtimerStartTime # NoTime
            /\ movePlayerInGame(GameId, CalledPlayer, a.src, a.tgt, a.pos) )
          => theEntry'.playtimeSeconds =
                RoundSeconds(theEntry.playtimeSeconds * MsPerSecond
                               + (now - theEntry.playtimerStartTime))]_vars

----------------------------------------------------------------------------
(* C7: in every reachable state a lineup entry has a non-null               *)
(* playtimerStartTime only if its location is field or inactive and the     *)
(* game's timerStatus is running.                                           *)
PlayerTimerOnlyWhileRunning ==
    \A i \in 1..Len(games) : \A k \in 1..Len(games[i].lineup) :
        games[i].lineup[k].playtimerStartTime # NoTime
            => /\ games[i].lineup[k].location \in {"field", "inactive"}
               /\ games[i].timerStatus = "running"

\* a player sent on while the clock runs, the personal timer started by the move
PlayerTimerOnlyWhileRunningWitness ==
    /\ hasGame(GameId) /\ hasEntry(theGame, CalledPlayer)
    /\ theGame.timerStatus = "running"
    /\ theEntry.location = "field"
    /\ theEntry.subbedOnCount = 1
    /\ theEntry.playtimerStartTime > theGame.timerStartTime

----------------------------------------------------------------------------
(* C8: once startGameTimer has started the game, no step of stopGameTimer,  *)
(* movePlayerInGame, markGameAsFinished or a further startGameTimer changes *)
(* the isStarter or initialPosition of any lineup entry (until              *)
(* resetGameLineup).                                                        *)
StarterFlagsSetOnce ==
    [][(started /\ started' /\ sameGame) =>
          \A k \in 1..Len(theGame.lineup) :
              /\ theGame'.lineup[k].isStarter = theGame.lineup[k].isStarter
              /\ theGame'.lineup[k].initialPosition = theGame.lineup[k].initialPosition]_vars

----------------------------------------------------------------------------
(* C9: movePlayerInGame called with source bench and target field on an     *)
(* active game appends exactly one event, a substitution with playerInId    *)
(* the player and playerOutId absent, and raises the player's subbedOnCount *)
(* by 1; with source field and target bench it appends exactly one          *)
(* substitution with playerOutId the player and playerInId absent and       *)
(* raises subbedOffCount by 1.                                              *)
isSubstitution(ev, inId, outId) ==
    ev.type = "substitution" /\ ev.playerInId = inId /\ ev.playerOutId = outId

appendsOne(inId, outId) ==
    /\ Len(theGame'.events) = Len(theGame.events) + 1
    /\ SubSeq(theGame'.events, 1, Len(theGame.events)) = theGame.events
    /\ isSubstitution(theGame'.events[Len(theGame'.events)], inId, outId)

\* the step is the call movePlayerInGame(GameId, CalledPlayer, a.src, a.tgt,
\* a.pos) finding the player in the lineup (the conjuncts before the last
\* follow from it; they let TLC dismiss other steps early)
isMoveCall(a) ==
    /\ now' = now
    /\ hasGame(GameId) /\ hasEntry(theGame, CalledPlayer)
    /\ hasGame(GameId)' /\ hasEntry(theGame', CalledPlayer)
    /\ theGame'.lineup[findIndex(theGame.lineup, CalledPlayer)].location = a.tgt
    /\ theGame'.lineup[findIndex(theGame.lineup, CalledPlayer)].position = a.pos
    /\ movePlayerInGame(GameId, CalledPlayer, a.src, a.tgt, a.pos)

SubOnArgs == { [src |-> "bench", tgt |-> "field", pos |-> q] : q \in Positions }

SubOffArgs == { [src |-> "field", tgt |-> "bench", pos |-> NULL] }

\* the log of `moved` is the log of g with one substitution appended
logsOne(g, moved, inId, outId) ==
    /\ Len(moved.events) = Len(g.events) + 1
    /\ SubSeq(moved.events, 1, Len(g.events)) = g.events
    /\ isSubstitution(moved.events[Len(moved.events)], inId, outId)

\* stated on what the updater of movePlayerInGame makes of the game, in every
\* reachable state in which the game is active and the player in its lineup
ActiveMoveLogsSubstitution ==
    (hasGame(GameId) /\ hasEntry(theGame, CalledPlayer) /\ isGameActive(theGame)) =>
        LET k == findIndex(theGame.lineup, CalledPlayer) IN
        /\ \A a \in SubOnArgs :
              LET moved == movePlayerOn(theGame, k, a.src, a.tgt, a.pos, now) IN
              /\ logsOne(theGame, moved, CalledPlayer, NULL)
              /\ moved.lineup[k].subbedOnCount = theEntry.subbedOnCount + 1
              /\ moved.lineup[k].subbedOffCount = theEntry.subbedOffCount
        /\ \A a \in SubOffArgs :
              LET moved == movePlayerOn(theGame, k, a.src, a.tgt, a.pos, now) IN
              /\ logsOne(theGame, moved, NULL, CalledPlayer)
              /\ moved.lineup[k].subbedOffCount = theEntry.subbedOffCount + 1
              /\ moved.lineup[k].subbedOnCount = theEntry.subbedOnCount

\* a starter taken off during the game: one substitution event names them as
\* the player going out
ActiveMoveLogsSubstitutionWitness ==
    /\ hasGame(GameId) /\ hasEntry(theGame, CalledPlayer) /\ isGameActive(theGame)
    /\ theEntry.location = "bench"
    /\ theEntry.isStarter /\ theEntry.playtimeSeconds >= 1
    /\ theEntry.subbedOffCount = 1 /\ theEntry.subbedOnCount = 0
    /\ Len(theGame.events) = 1
    /\ isSubstitution(theGame.events[1], NULL, CalledPlayer)

----------------------------------------------------------------------------
(* C10: movePlayerInGame leaves the game's events and the player's          *)
(* subbedOnCount and subbedOffCount unchanged when the game is not active   *)
(* (stopped with timerElapsedSeconds = 0) and, in any clock state, when the *)
(* move is to or from inactive or from field to field.                      *)
QuietArgs ==
    { a \in MoveArgs :
        a.src = "inactive" \/ a.tgt = "inactive" \/ (a.src = "field" /\ a.tgt = "field") }

notActive(g) == g.timerStatus = "stopped" /\ g.timerElapsedSeconds = 0

\* stated on what the updater of movePlayerInGame makes of the game, in every
\* reachable state in which the player is in the game's lineup
QuietMoveLogsNothing ==
    (hasGame(GameId) /\ hasEntry(theGame, CalledPlayer)) =>
        LET k == findIndex(theGame.lineup, CalledPlayer) IN
        \A a \in MoveArgs :
            (a \in QuietArgs \/ notActive(theGame)) =>
                LET moved == movePlayerOn(theGame, k, a.src, a.tgt, a.pos, now) IN
                /\ moved.events = theGame.events
                /\ moved.lineup[k].subbedOnCount = theEntry.subbedOnCount
                /\ moved.lineup[k].subbedOffCount = theEntry.subbedOffCount

\* a starter made inactive while the clock runs, and nothing was logged
QuietMoveLogsNothingWitness ==
    /\ hasGame(GameId) /\ hasEntry(theGame, CalledPlayer)
    /\ theGame.timerStatus = "running"
    /\ theEntry.isStarter /\ theEntry.location = "inactive"
    /\ theGame.events = << >>
    /\ theEntry.subbedOnCount = 0 /\ theEntry.subbedOffCount = 0

----------------------------------------------------------------------------
(* C11: removeLastGameEvent(game, team), when a goal event of that team     *)
(* exists, removes exactly the goal event of that team with the highest     *)
(* index, keeps every other event in its original order, lowers that team's *)
(* score by 1 and leaves the other team's score unchanged.                  *)
isGoalOf(ev, team) == ev.type = "goal" /\ ev.team = team

goalIndexes(events, team) == { i \in 1..Len(events) : isGoalOf(events[i], team) }

\* the log `events` with the entry at index k taken out
without(events, k) ==
    [i \in 1..(Len(events) - 1) |-> IF i < k THEN events[i] ELSE events[i + 1]]

RemoveTakesNewestGoal ==
    [][\A team \in Teams :
          ( /\ hasGame(GameId)
            /\ goalIndexes(theGame.events, team) # {}
            /\ removeLastGameEvent(GameId, team) )
          => LET ev == theGame.events
                 k == CHOOSE i \in goalIndexes(ev, team) :
                          \A j \in goalIndexes(ev, team) : j <= i
             IN /\ theGame'.events = without(ev, k)
                /\ theGame'.homeScore =
                      theGame.homeScore - (IF team = "home" THEN 1 ELSE 0)
                /\ theGame'.awayScore =
                      theGame.awayScore - (IF team = "away" THEN 1 ELSE 0)]_vars

\* a log from which the newest home goal can be taken: two home goals of
\* different scorers with another event after the first
RemoveTakesNewestGoalWitness ==
    /\ hasGame(GameId)
    /\ Len(theGame.events) = 3
    /\ isGoalOf(theGame.events[1], "home") /\ isGoalOf(theGame.events[3], "home")
    /\ theGame.events[1].scorerPlayerId # theGame.events[3].scorerPlayerId
    /\ ~isGoalOf(theGame.events[2], "home")
    /\ theGame.homeScore = 2

----------------------------------------------------------------------------
(* C12: removeLastGameEvent(game, team) leaves the game's events, homeScore *)
(* and awayScore unchanged when events holds no goal event of that team,    *)
(* even when it holds goals of the other team or substitution events.       *)
RemoveWithoutGoalKeepsGame ==
    [][\A team \in Teams :
          ( /\ hasGame(GameId)
            /\ goalIndexes(theGame.events, team) = {}
            /\ removeLastGameEvent(GameId, team) )
          => /\ theGame'.events = theGame.events
             /\ theGame'.homeScore = theGame.homeScore
             /\ theGame'.awayScore = theGame.awayScore]_vars

\* a log without a home goal that holds an away goal and a substitution
RemoveWithoutGoalKeepsGameWitness ==
    /\ hasGame(GameId)
    /\ goalIndexes(theGame.events, "home") = {}
    /\ goalIndexes(theGame.events, "away") # {}
    /\ \E i \in 1..Len(theGame.events) : theGame.events[i].type = "substitution"
    /\ theGame.awayScore >= 1 /\ theGame.homeScore = 0

----------------------------------------------------------------------------
(* C14: every operation other than removeLastGameEvent and resetGameLineup  *)
(* leaves the game's previous events list as a prefix of the new one, every *)
(* existing event unchanged; removeLastGameEvent removes at most one event  *)
(* and changes no other event.                                              *)
isPrefix(a, b) == Len(a) <= Len(b) /\ SubSeq(b, 1, Len(a)) = a

tookOneOut(a, b) == \E k \in 1..Len(a) : b = without(a, k)

EventLogAppendOnly ==
    [][sameGame =>
          \/ isPrefix(theGame.events, theGame'.events)
          \/ resetGameLineup(GameId)
          \/ /\ \E team \in Teams : removeLastGameEvent(GameId, team)
             /\ tookOneOut(theGame.events, theGame'.events)]_vars

\* a log that grew by a goal, then a substitution, then another goal
EventLogAppendOnlyWitness ==
    /\ hasGame(GameId)
    /\ Len(theGame.events) = 3
    /\ theGame.events[1].type = "goal"
    /\ theGame.events[2].type = "substitution"
    /\ theGame.events[3].type = "goal"

----------------------------------------------------------------------------
(* C13: resetGameLineup, applied to a game in any state, yields a lineup    *)
(* with one entry per current roster player, each on the bench with         *)
(* playtimeSeconds 0, playtimerStartTime null, isStarter false and both     *)
(* substitution counters 0, together with events empty, both scores 0,      *)
(* timerStatus stopped, timerStartTime null, timerElapsedSeconds 0 and      *)
(* isExplicitlyFinished false.                                              *)
idsOf(s) == { s[i].id : i \in 1..Len(s) }

\* number of entries of `s` that carry the id
entriesOf(s, id) == Cardinality({ i \in 1..Len(s) : s[i].id = id })

oneEntryPerPlayer(lineup, ps) ==
    /\ idsOf(lineup) = idsOf(ps)
    /\ \A id \in idsOf(ps) : entriesOf(lineup, id) = 1

freshEntry(p) ==
    /\ p.location = "bench" /\ p.playtimeSeconds = 0
    /\ p.playtimerStartTime = NoTime /\ p.isStarter = FALSE
    /\ p.subbedOnCount = 0 /\ p.subbedOffCount = 0

freshGame(g, ps) ==
    /\ oneEntryPerPlayer(g.lineup, ps)
    /\ \A k \in 1..Len(g.lineup) : freshEntry(g.lineup[k])
    /\ g.events = << >> /\ g.homeScore = 0 /\ g.awayScore = 0
    /\ g.timerStatus = "stopped" /\ g.timerStartTime = NoTime
    /\ g.timerElapsedSeconds = 0 /\ g.isExplicitlyFinished = FALSE

ResetYieldsFreshGame ==
    [][(hasGame(GameId) /\ resetGameLineup(GameId)) => freshGame(theGame', players')]_vars

\* a game to reset: finished with time on its clock, a goal logged, the
\* player on the field with time played, and a roster that has gained a
\* player the lineup does not know
ResetYieldsFreshGameWitness ==
    /\ hasGame(GameId)
    /\ theGame.isExplicitlyFinished /\ theGame.homeScore = 1
    /\ theGame.timerElapsedSeconds >= 1
    /\ hasEntry(theGame, CalledPlayer) /\ theEntry.location = "field"
    /\ theEntry.playtimeSeconds >= 1
    /\ UuidPool[1] \in idsOf(players) \ idsOf(theGame.lineup)

----------------------------------------------------------------------------
(* C15: in every reachable state, each game's lineup holds exactly one      *)
(* entry per player of the current roster and no entry for anyone else,     *)
(* under any interleaving of addPlayer, deletePlayer, addGame,              *)
(* movePlayerInGame and resetGameLineup.                                    *)
\* stated for the states in which the roster has arrived and no roster call
\* is awaiting its answer
LineupIsRoster ==
    (currentUser # NULL /\ ~playersLoading /\ queries = << >>)
        => \A i \in 1..Len(games) : oneEntryPerPlayer(games[i].lineup, players)

----------------------------------------------------------------------------
(* C16: after deletePlayer(id) succeeds, no game's lineup contains an entry *)
(* with that id, and every event that referenced the id is still in the log *)
(* with that reference nulled; no event is removed.                         *)
playerRefs == {"scorerPlayerId", "assistPlayerId", "playerInId", "playerOutId"}

nulled(ev, id) ==
    [f \in DOMAIN ev |-> IF f \in playerRefs /\ ev[f] = id THEN NULL ELSE ev[f]]

DeletePrunesGames ==
    [][\A q \in 1..Len(queries) :
          (isAwaited(q, "delete") /\ queries[q].id \in idsOf(players)
             /\ deletePlayerAnswer(q, NULL))
          => /\ Len(games') = Len(games)
             /\ \A i \in 1..Len(games) :
                   /\ queries[q].id \notin idsOf(games'[i].lineup)
                   /\ games'[i].events =
                         [k \in 1..Len(games[i].events) |->
                             nulled(games[i].events[k], queries[q].id)]]_vars

----------------------------------------------------------------------------
(* C18: when the Supabase call made by addPlayer, updatePlayer or           *)
(* deletePlayer returns an error, the players list is exactly what it was   *)
(* before the call.                                                         *)
\* a step of a roster call whose query fails: the call itself, or the rest of
\* the function once the query has answered with an error
isFailedRosterCall ==
    \/ \E n \in FirstNames, x \in {"", "9"} : addPlayer(n, x)
    \/ \E id \in issued, u \in PlayerUpdates : updatePlayer(id, u)
    \/ \E id \in issued : deletePlayer(id)
    \/ \E q \in 1..Len(queries) :
          \/ addPlayerAnswer(q, "error")
          \/ updatePlayerAnswer(q, "error")
          \/ deletePlayerAnswer(q, "error")

FailedRosterCallKeepsPlayers ==
    [][isFailedRosterCall => players' = players]_vars

\* the alert of a failed call was shown, no call is in flight and the roster
\* is still the fetched one
FailedRosterCallKeepsPlayersWitness ==
    /\ alertShown = "error"
    /\ queries = << >> /\ ~playersLoading
    /\ players = fetchedPlayers
    /\ issued = PlayerIds

----------------------------------------------------------------------------
(* C17: a game operation (start, stop, finish, move, add goal, remove goal, *)
(* reset) whose persistence write fails does not advance the in-memory      *)
(* state: after the failed write the games state equals the last            *)
(* successfully persisted snapshot.                                         *)
FailedWriteKeepsGames ==
    [][(~storageOk /\ ~storageOk' /\ games' # games) => games' = stored']_vars

----------------------------------------------------------------------------
(* C19: addGameEvent, removeLastGameEvent, startGameTimer, stopGameTimer,   *)
(* markGameAsFinished, resetGameLineup, movePlayerInGame,                   *)
(* startPlayerTimerInGame and stopPlayerTimerInGame called with a gameId    *)
(* that is not in games leave games unchanged, and movePlayerInGame called  *)
(* with a playerId absent from the game's lineup leaves games unchanged.    *)
isStaleGameCall ==
    \/ \E team \in Teams, scorer \in {CalledPlayer, NULL} :
          addGameEvent(GhostGame, team, scorer, NULL)
    \/ \E team \in Teams : removeLastGameEvent(GhostGame, team)
    \/ startGameTimer(GhostGame)
    \/ stopGameTimer(GhostGame)
    \/ markGameAsFinished(GhostGame)
    \/ resetGameLineup(GhostGame)
    \/ \E pid \in {CalledPlayer, GhostPlayer} : startPlayerTimerInGame(GhostGame, pid)
    \/ \E pid \in {CalledPlayer, GhostPlayer} : stopPlayerTimerInGame(GhostGame, pid)
    \/ \E pid \in {CalledPlayer, GhostPlayer}, a \in MoveArgs :
          movePlayerInGame(GhostGame, pid, a.src, a.tgt, a.pos)

isStalePlayerMove ==
    \E a \in MoveArgs : movePlayerInGame(GameId, GhostPlayer, a.src, a.tgt, a.pos)

StaleCallKeepsGames ==
    [][games' = games \/ ~(isStaleGameCall \/ isStalePlayerMove)]_vars

\* a game a stale call could spoil: the clock running, the player on the
\* field with the player's timer started, an event in the log
StaleCallKeepsGamesWitness ==
    /\ hasGame(GameId) /\ hasEntry(theGame, CalledPlayer) /\ ~hasGame(GhostGame)
    /\ ~hasEntry(theGame, GhostPlayer)
    /\ theGame.timerStatus = "running"
    /\ theEntry.location = "field" /\ theEntry.playtimerStartTime # NoTime
    /\ Len(theGame.events) = 1

----------------------------------------------------------------------------
(* C20: startGameTimer on a game whose isExplicitlyFinished is true leaves  *)
(* the game unchanged: timerStatus, timerStartTime, timerElapsedSeconds,    *)
(* lineup and isExplicitlyFinished keep their values.                       *)
StartOnFinishedKeepsGame ==
    [][(hasGame(GameId) /\ theGame.isExplicitlyFinished /\ startGameTimer(GameId))
          => theGame' = theGame]_vars

\* a finished game with time on the clock and the player still on the field
StartOnFinishedKeepsGameWitness ==
    /\ hasGame(GameId) /\ hasEntry(theGame, CalledPlayer)
    /\ theGame.isExplicitlyFinished
    /\ theGame.timerStatus = "stopped" /\ theGame.timerElapsedSeconds >= 1
    /\ theEntry.location = "field" /\ theEntry.playtimeSeconds >= 1

----------------------------------------------------------------------------
(* C21: markGameAsFinished is idempotent: applied twice in succession, at   *)
(* any two instants, it yields the same timerStatus, timerStartTime,        *)
(* timerElapsedSeconds, isExplicitlyFinished and per-player playtimeSeconds *)
(* and playtimerStartTime as applied once.                                  *)
clockView(g) ==
    [timerStatus |-> g.timerStatus, timerStartTime |-> g.timerStartTime,
     timerElapsedSeconds |-> g.timerElapsedSeconds,
     isExplicitlyFinished |-> g.isExplicitlyFinished,
     playtimes |-> [k \in 1..Len(g.lineup) |->
                      <<g.lineup[k].playtimeSeconds, g.lineup[k].playtimerStartTime>>]]

\* how much later the second call comes: at once, a quarter second, a second
SecondCallDelays == {0} \cup TickSteps \cup WholeSecondSteps

FinishIsIdempotent ==
    hasGame(GameId) =>
        \A d \in SecondCallDelays :
            clockView(markGameAsFinishedOn(markGameAsFinishedOn(theGame, now), now + d))
                = clockView(markGameAsFinishedOn(theGame, now))

\* a game finished with time on the clock, the player taken out of the squad
\* after having played
FinishIsIdempotentWitness ==
    /\ hasGame(GameId) /\ hasEntry(theGame, CalledPlayer)
    /\ theGame.isExplicitlyFinished /\ theGame.timerElapsedSeconds >= 1
    /\ theEntry.location = "inactive" /\ theEntry.playtimeSeconds >= 1

----------------------------------------------------------------------------
(* C22: addGameEvent(game, team, scorer, assist) appends exactly one goal   *)
(* event carrying that team, scorer and assist, raises that team's score by *)
(* exactly 1 and leaves the other team's score, the lineup and the clock    *)
(* fields unchanged, in every clock state.                                  *)
GoalScorers == {CalledPlayer, NULL}

GoalAssists == {"p2", NULL}

goalAdded(g, g2, team, scorer, assist) ==
    /\ Len(g2.events) = Len(g.events) + 1
    /\ SubSeq(g2.events, 1, Len(g.events)) = g.events
    /\ LET ev == g2.events[Len(g2.events)] IN
          /\ ev.type = "goal" /\ ev.team = team
          /\ ev.scorerPlayerId = scorer /\ ev.assistPlayerId = assist
    /\ g2.homeScore = g.homeScore + (IF team = "home" THEN 1 ELSE 0)
    /\ g2.awayScore = g.awayScore + (IF team = "away" THEN 1 ELSE 0)
    /\ g2.lineup = g.lineup
    /\ g2.timerStatus = g.timerStatus /\ g2.timerStartTime = g.timerStartTime
    /\ g2.timerElapsedSeconds = g.timerElapsedSeconds
    /\ g2.isExplicitlyFinished = g.isExplicitlyFinished

AddGoalAppendsOneGoal ==
    hasGame(GameId) =>
        \A team \in Teams, scorer \in GoalScorers, assist \in GoalAssists :
            goalAdded(theGame, addGameEventOn(theGame, team, scorer, assist, now),
                      team, scorer, assist)

\* a home goal of the player logged while the clock runs
AddGoalAppendsOneGoalWitness ==
    /\ hasGame(GameId)
    /\ theGame.timerStatus = "running"
    /\ Len(theGame.events) = 1 /\ theGame.events[1].type = "goal"
    /\ theGame.events[1].scorerPlayerId = CalledPlayer
    /\ theGame.homeScore = 1 /\ theGame.awayScore = 0

----------------------------------------------------------------------------
(* C23: scenario: a game is started with player P on field; stopGameTimer   *)
(* 600 s later gives timerElapsedSeconds = 600, P.playtimeSeconds = 600 and *)
(* P.playtimerStartTime = null; after startGameTimer again and 300 further  *)
(* seconds, movePlayerInGame(P, field, bench) gives P.playtimeSeconds = 900 *)
(* and appends exactly one substitution event with playerOutId = P and      *)
(* gameSeconds = 900.                                                       *)
ScenarioStopSeconds == (2 * ScenarioStepMs) \div MsPerSecond

ScenarioMoveSeconds == (3 * ScenarioStepMs) \div MsPerSecond

\* P on field, P's timer started with the clock, the clock running for ms
\* milliseconds on top of elapsed seconds
scenarioAt(elapsed, ms) ==
    /\ hasGame(GameId) /\ hasEntry(theGame, CalledPlayer)
    /\ theGame.timerStatus = "running"
    /\ theGame.timerElapsedSeconds = elapsed
    /\ now - theGame.timerStartTime = ms
    /\ theEntry.location = "field"
    /\ theEntry.playtimeSeconds = elapsed
    /\ theEntry.playtimerStartTime = theGame.timerStartTime

ScenarioPlaytime ==
    [][/\ (scenarioAt(0, 2 * ScenarioStepMs) /\ stopGameTimer(GameId))
            => /\ theGame'.timerElapsedSeconds = ScenarioStopSeconds
               /\ theEntry'.playtimeSeconds = ScenarioStopSeconds
               /\ theEntry'.playtimerStartTime = NoTime
       /\ \A a \in SubOffArgs :
            (scenarioAt(ScenarioStopSeconds, ScenarioStepMs) /\ isMoveCall(a))
            => /\ theEntry'.playtimeSeconds = ScenarioMoveSeconds
               /\ appendsOne(NULL, CalledPlayer)
               /\ theGame'.events[Len(theGame'.events)].gameSeconds
                      = ScenarioMoveSeconds]_vars

\* the end of the scenario: P on the bench with 900 s played, the clock
\* running on top of 600 s, the one event P's substitution at 900 s
ScenarioPlaytimeWitness ==
    /\ hasGame(GameId) /\ hasEntry(theGame, CalledPlayer)
    /\ theGame.timerStatus = "running"
    /\ theGame.timerElapsedSeconds = ScenarioStopSeconds
    /\ theEntry.location = "bench"
    /\ theEntry.playtimeSeconds = ScenarioMoveSeconds
    /\ theEntry.playtimerStartTime = NoTime
    /\ Len(theGame.events) = 1
    /\ isSubstitution(theGame.events[1], NULL, CalledPlayer)
    /\ theGame.events[1].gameSeconds = ScenarioMoveSeconds

----------------------------------------------------------------------------
(* C24: addGame creates a game whose lineup has one entry per player of the *)
(* roster at that moment, every entry on bench with playtimeSeconds 0,      *)
(* playtimerStartTime null and both substitution counters 0, with events    *)
(* empty, both scores 0, timerStatus stopped, timerElapsedSeconds 0 and     *)
(* isExplicitlyFinished false.                                              *)
AddGameYieldsFreshGame ==
    [][\A d \in GameDates, loc \in Teams :
          (issuedGames' = issuedGames + 1 /\ addGame(d, loc))
          => /\ Len(games') = Len(games) + 1
             /\ entriesOf(games', nextGameUuid(issuedGames)) = 1
             /\ freshGame(games'[findIndex(games', nextGameUuid(issuedGames))], players)
             /\ \A i \in 1..Len(games) : entriesOf(games', games[i].id) = 1]_vars

\* two games of one session: the first created before the players query
\* answered, with an empty lineup, the second created after it at an earlier
\* date, with the fetched roster on the bench, and sorted in front
AddGameYieldsFreshGameWitness ==
    /\ Len(games) = 2 /\ issuedGames = 2
    /\ games[1].id = GameUuidPool[2] /\ games[2].id = GameId
    /\ games[2].lineup = << >>
    /\ players = fetchedPlayers
    /\ freshGame(games[1], fetchedPlayers)

----------------------------------------------------------------------------
(* C25: startGameTimer on a fresh game (timerElapsedSeconds = 0,            *)
(* timerStartTime null, not finished) sets isStarter to true for every      *)
(* lineup entry whose location is field or bench and to false for every     *)
(* inactive entry, and sets initialPosition of every field entry to that    *)
(* entry's current position.                                                *)
FreshStartMarksStarters ==
    [][(/\ hasGame(GameId)
        /\ theGame.timerStartTime = NoTime /\ theGame.timerElapsedSeconds = 0
        /\ ~theGame.isExplicitlyFinished
        /\ startGameTimer(GameId))
          => \A k \in 1..Len(theGame.lineup) :
                LET p == theGame.lineup[k]
                    q == theGame'.lineup[k]
                IN /\ q.id = p.id /\ q.location = p.location
                   /\ q.isStarter = (p.location \in {"field", "bench"})
                   /\ p.location = "field" => q.initialPosition = p.position]_vars

\* the clock started on a fresh game with the player out of the squad, who is
\* no starter, while the other player, on the bench, is
FreshStartMarksStartersWitness ==
    /\ hasGame(GameId) /\ hasEntry(theGame, CalledPlayer)
    /\ theGame.timerStatus = "running" /\ theGame.timerElapsedSeconds = 0
    /\ theEntry.location = "inactive" /\ ~theEntry.isStarter
    /\ entryOf(theGame, "p2").location = "bench" /\ entryOf(theGame, "p2").isStarter

----------------------------------------------------------------------------
(* C26: whenever a game's timerStatus is running, every lineup entry with   *)
(* location field has a non-null playtimerStartTime, in every state         *)
(* reachable through startGameTimer, stopGameTimer, markGameAsFinished,     *)
(* movePlayerInGame, addGameEvent, removeLastGameEvent and resetGameLineup. *)
RunningFieldPlayersAreTimed ==
    \A i \in 1..Len(games) :
        games[i].timerStatus = "running" =>
            \A k \in 1..Len(games[i].lineup) :
                games[i].lineup[k].location = "field"
                    => games[i].lineup[k].playtimerStartTime # NoTime

\* the player sent onto the field after the clock was started: a timer
\* started later than the clock
RunningFieldPlayersAreTimedWitness ==
    /\ hasGame(GameId) /\ hasEntry(theGame, CalledPlayer)
    /\ theGame.timerStatus = "running"
    /\ theEntry.location = "field" /\ theEntry.subbedOnCount = 1
    /\ theEntry.playtimerStartTime > theGame.timerStartTime

----------------------------------------------------------------------------
(* C27: stopGameTimer on a running game adds (now - timerStartTime) to      *)
(* timerElapsedSeconds, adds (now - playtimerStartTime) to the              *)
(* playtimeSeconds of every field or inactive entry whose                   *)
(* playtimerStartTime is non-null and nulls that entry's                    *)
(* playtimerStartTime, sets timerStatus to stopped and timerStartTime to    *)
(* null, and leaves events, scores and isExplicitlyFinished unchanged.      *)
isStopOfRunning ==
    /\ hasGame(GameId)
    /\ theGame.timerStatus = "running" /\ theGame'.timerStatus = "stopped"
    /\ stopGameTimer(GameId)

isFlushed(p) == p.location \in {"field", "inactive"} /\ p.playtimerStartTime # NoTime

\* what the stop leaves alone, and the clock it leaves stopped
stopFrame ==
    /\ theGame'.timerStartTime = NoTime
    /\ theGame'.events = theGame.events
    /\ theGame'.homeScore = theGame.homeScore /\ theGame'.awayScore = theGame.awayScore
    /\ theGame'.isExplicitlyFinished = theGame.isExplicitlyFinished
    /\ Len(theGame'.lineup) = Len(theGame.lineup)
    /\ \A k \in 1..Len(theGame.lineup) :
          IF isFlushed(theGame.lineup[k])
          THEN theGame'.lineup[k].playtimerStartTime = NoTime
          ELSE theGame'.lineup[k] = theGame.lineup[k]

\* the claim as stated: the stored seconds grow by exactly the time run
StopAddsExactSlices ==
    [][isStopOfRunning
          => /\ stopFrame
             /\ theGame'.timerElapsedSeconds * MsPerSecond
                  = theGame.timerElapsedSeconds * MsPerSecond
                      + (now - theGame.timerStartTime)
             /\ \A k \in 1..Len(theGame.lineup) :
                  LET p == theGame.lineup[k] IN
                  isFlushed(p) =>
                      theGame'.lineup[k].playtimeSeconds * MsPerSecond
                          = p.playtimeSeconds * MsPerSecond
                              + (now - p.playtimerStartTime)]_vars

\* as amended: each sum is rounded to the nearest whole second
StopAddsRoundedSlices ==
    [][isStopOfRunning
          => /\ stopFrame
             /\ theGame'.timerElapsedSeconds
                  = theGame.timerElapsedSeconds
                      + RoundSeconds(now - theGame.timerStartTime)
             /\ \A k \in 1..Len(theGame.lineup) :
                  LET p == theGame.lineup[k] IN
                  isFlushed(p) =>
                      theGame'.lineup[k].playtimeSeconds
                          = p.playtimeSeconds
                              + RoundSeconds(now - p.playtimerStartTime)]_vars

\* the clock stopped less than a second after the program started: a full
\* second is stored for the clock and for the player on the field
StopAddsRoundedSlicesWitness ==
    /\ hasGame(GameId) /\ hasEntry(theGame, CalledPlayer)
    /\ now - MsPerSecond < MsPerSecond
    /\ theGame.timerStatus = "stopped" /\ ~theGame.isExplicitlyFinished
    /\ theGame.timerElapsedSeconds = 1
    /\ theEntry.location = "field"
    /\ theEntry.playtimeSeconds = 1 /\ theEntry.playtimerStartTime = NoTime

----------------------------------------------------------------------------
(* C28: stopGameTimer on a game whose timerStatus is stopped (never         *)
(* started, paused or finished) leaves the game unchanged:                  *)
(* timerElapsedSeconds and every playtimeSeconds keep their values.         *)
StopOnStoppedKeepsGame ==
    [][(hasGame(GameId) /\ theGame.timerStatus = "stopped" /\ stopGameTimer(GameId))
          => theGame' = theGame]_vars

\* a paused game: time on the clock, a goal logged, the player on the field
\* with playtime
StopOnStoppedKeepsGameWitness ==
    /\ hasGame(GameId) /\ hasEntry(theGame, CalledPlayer)
    /\ theGame.timerStatus = "stopped" /\ ~theGame.isExplicitlyFinished
    /\ theGame.timerElapsedSeconds >= 1
    /\ theEntry.location = "field" /\ theEntry.playtimeSeconds >= 1
    /\ goalCount(theGame.events, "home") = 1

----------------------------------------------------------------------------
(* C29: markGameAsFinished, from any clock state, results in timerStatus    *)
(* stopped, timerStartTime null, isExplicitlyFinished true and              *)
(* playtimerStartTime null for every lineup entry; from Running it adds to  *)
(* timerElapsedSeconds and to each playtimeSeconds exactly what             *)
(* stopGameTimer would add at the same instant, and from Stopped it leaves  *)
(* timerElapsedSeconds and every playtimeSeconds unchanged.                 *)
playtimesOf(g) == [k \in 1..Len(g.lineup) |-> g.lineup[k].playtimeSeconds]

FinishReconcilesAsStop ==
    [][(hasGame(GameId) /\ theGame'.isExplicitlyFinished /\ markGameAsFinished(GameId))
          => /\ theGame'.timerStatus = "stopped" /\ theGame'.timerStartTime = NoTime
             /\ \A k \in 1..Len(theGame'.lineup) :
                    theGame'.lineup[k].playtimerStartTime = NoTime
             /\ theGame.timerStatus = "running" =>
                    /\ theGame'.timerElapsedSeconds
                          = stopGameTimerOn(theGame, now).timerElapsedSeconds
                    /\ playtimesOf(theGame') = playtimesOf(stopGameTimerOn(theGame, now))
             /\ theGame.timerStatus = "stopped" =>
                    /\ theGame'.timerElapsedSeconds = theGame.timerElapsedSeconds
                    /\ playtimesOf(theGame') = playtimesOf(theGame)]_vars

\* a game finished half a second after the program started, the player sent
\* onto the field during it: a second on the clock and a second played
FinishReconcilesAsStopWitness ==
    /\ hasGame(GameId) /\ hasEntry(theGame, CalledPlayer)
    /\ now - MsPerSecond < MsPerSecond
    /\ theGame.isExplicitlyFinished /\ theGame.timerStatus = "stopped"
    /\ theGame.timerElapsedSeconds = 1
    /\ theEntry.location = "field" /\ theEntry.subbedOnCount = 1
    /\ theEntry.playtimeSeconds = 1 /\ theEntry.playtimerStartTime = NoTime

----------------------------------------------------------------------------
(* C30: after movePlayerInGame the moved player's playtimerStartTime is     *)
(* non-null if and only if the target location is field and the game's      *)
(* timerStatus is running; startPlayerTimerInGame on a field player whose   *)
(* playtimerStartTime is already non-null leaves that start time unchanged. *)
\* (stated of the handlers' results on every reachable game)
MoveTimesPlayerByTarget ==
    (hasGame(GameId) /\ hasEntry(theGame, CalledPlayer)) =>
        LET k == findIndex(theGame.lineup, CalledPlayer) IN
        /\ \A a \in MoveArgs :
              LET moved == movePlayerOn(theGame, k, a.src, a.tgt, a.pos, now).lineup[k] IN
              (moved.playtimerStartTime # NoTime)
                  <=> (a.tgt = "field" /\ theGame.timerStatus = "running")
        /\ (theEntry.location = "field" /\ theEntry.playtimerStartTime # NoTime)
              => startPlayerTimerOn(theGame, CalledPlayer, now).lineup[k].playtimerStartTime
                    = theEntry.playtimerStartTime

\* the player sent onto the field after kickoff, the clock still running:
\* the timer runs, and was started after the clock and before now
MoveTimesPlayerByTargetWitness ==
    /\ hasGame(GameId) /\ hasEntry(theGame, CalledPlayer)
    /\ theGame.timerStatus = "running"
    /\ theEntry.location = "field" /\ theEntry.subbedOnCount = 1
    /\ theEntry.playtimerStartTime # NoTime
    /\ theGame.timerStartTime < theEntry.playtimerStartTime
    /\ theEntry.playtimerStartTime < now

----------------------------------------------------------------------------
(* C31: in every reachable state a game's timerStartTime is non-null        *)
(* exactly when its timerStatus is running.                                 *)
StartTimeIffRunning ==
    \A i \in 1..Len(games) :
        (games[i].timerStartTime # NoTime) <=> (games[i].timerStatus = "running")

\* a paused game: the clock has run and was stopped, the player is out of
\* the squad
StartTimeIffRunningWitness ==
    /\ hasGame(GameId) /\ hasEntry(theGame, CalledPlayer)
    /\ theGame.timerStatus = "stopped" /\ theGame.timerStartTime = NoTime
    /\ ~theGame.isExplicitlyFinished /\ theGame.timerElapsedSeconds >= 1
    /\ theEntry.location = "inactive" /\ theEntry.isStarter

----------------------------------------------------------------------------
(* C34: in every reachable state, isExplicitlyFinished = true implies       *)
(* timerStatus = stopped and playtimerStartTime = null for every lineup     *)
(* entry, including after movePlayerInGame and addGameEvent calls made on a *)
(* finished game.                                                           *)
FinishedGameIsAtRest ==
    \A i \in 1..Len(games) :
        games[i].isExplicitlyFinished =>
            /\ games[i].timerStatus = "stopped"
            /\ \A k \in 1..Len(games[i].lineup) :
                  games[i].lineup[k].playtimerStartTime = NoTime

\* a finished game with time on the clock and the player on the field
\* without playtime: sent on while the clock stood
FinishedGameIsAtRestWitness ==
    /\ hasGame(GameId) /\ hasEntry(theGame, CalledPlayer)
    /\ theGame.isExplicitlyFinished /\ theGame.timerElapsedSeconds >= 1
    /\ theEntry.location = "field" /\ theEntry.subbedOnCount = 1
    /\ theEntry.playtimeSeconds = 0
    /\ Len(theGame.events) = 1

----------------------------------------------------------------------------
(* C35: in every reachable state, for every player p in a game's lineup,    *)
(* subbedOnCount of p equals the number of substitution events in that      *)
(* game's events with playerInId = p, and subbedOffCount of p equals the    *)
(* number with playerOutId = p.                                             *)
subsIn(events, id) ==
    Cardinality({ j \in 1..Len(events) :
                    events[j].type = "substitution" /\ events[j].playerInId = id })

subsOut(events, id) ==
    Cardinality({ j \in 1..Len(events) :
                    events[j].type = "substitution" /\ events[j].playerOutId = id })

CountersCountSubstitutions ==
    \A i \in 1..Len(games) :
        \A k \in 1..Len(games[i].lineup) :
            LET p == games[i].lineup[k] IN
            /\ p.subbedOnCount = subsIn(games[i].events, p.id)
            /\ p.subbedOffCount = subsOut(games[i].events, p.id)

\* the player sent on, taken off and sent on again, as the three events of
\* the log say
CountersCountSubstitutionsWitness ==
    /\ hasGame(GameId) /\ hasEntry(theGame, CalledPlayer)
    /\ theEntry.subbedOnCount = 2 /\ theEntry.subbedOffCount = 1
    /\ Len(theGame.events) = 3
    /\ theEntry.location = "field"

----------------------------------------------------------------------------
(* C32: every goal event (addGameEvent) and every substitution event        *)
(* (movePlayerInGame) is created with gameSeconds equal to the game's       *)
(* current game time at that instant: timerElapsedSeconds when the clock is *)
(* stopped, timerElapsedSeconds + (now - timerStartTime) when it is         *)
(* running.                                                                 *)
gameTimeMs(g, t) ==
    IF g.timerStatus = "running"
    THEN g.timerElapsedSeconds * MsPerSecond + (t - g.timerStartTime)
    ELSE g.timerElapsedSeconds * MsPerSecond

\* the step appends an event to the log of the game
isEventCreated ==
    /\ hasGame(GameId)
    /\ Len(theGame'.events) = Len(theGame.events) + 1

createdEvent == theGame'.events[Len(theGame'.events)]

\* the claim as stated: the stamp is the game time itself
EventStampedWithExactGameTime ==
    [][isEventCreated
          => createdEvent.gameSeconds * MsPerSecond = gameTimeMs(theGame, now)]_vars

\* as amended: the stamp is the game time rounded to the nearest whole second
EventStampedWithRoundedGameTime ==
    [][isEventCreated
          => createdEvent.gameSeconds = RoundSeconds(gameTimeMs(theGame, now))]_vars

\* a goal logged half a second into the game, stamped with second 1
EventStampedWithRoundedGameTimeWitness ==
    /\ hasGame(GameId)
    /\ theGame.timerStatus = "running" /\ theGame.timerElapsedSeconds = 0
    /\ now - theGame.timerStartTime < MsPerSecond
    /\ Len(theGame.events) = 1
    /\ theGame.events[1].type = "goal" /\ theGame.events[1].gameSeconds = 1

----------------------------------------------------------------------------
(* C36: in every reachable state, no player's accumulated on-field time     *)
(* exceeds the game's current game time: playtimeSeconds plus               *)
(* (now - playtimerStartTime, when the personal timer runs) is at most      *)
(* timerElapsedSeconds plus (now - timerStartTime, when the clock runs),    *)
(* for any sequence of startGameTimer, stopGameTimer, markGameAsFinished    *)
(* and movePlayerInGame.                                                    *)
playedMs(p, t) ==
    p.playtimeSeconds * MsPerSecond
      + (IF p.playtimerStartTime # NoTime THEN t - p.playtimerStartTime ELSE 0)

PlaytimeWithinGameTime ==
    \A i \in 1..Len(games) :
        \A k \in 1..Len(games[i].lineup) :
            playedMs(games[i].lineup[k], now) <= gameTimeMs(games[i], now)

----------------------------------------------------------------------------
(* C37: in every reachable state of a game, gameSeconds is non-decreasing   *)
(* along the events list: an event appended later never carries a smaller   *)
(* gameSeconds than an event before it, for any sequence of startGameTimer, *)
(* stopGameTimer, markGameAsFinished, addGameEvent, removeLastGameEvent and *)
(* movePlayerInGame.                                                        *)
EventsInGameTimeOrder ==
    \A i \in 1..Len(games) :
        \A j \in 1..Len(games[i].events) : \A h \in 1..Len(games[i].events) :
            j < h => games[i].events[j].gameSeconds <= games[i].events[h].gameSeconds

----------------------------------------------------------------------------
(* C33: swapPlayers(a, b) exchanges only the location and position of the   *)
(* two planning-lineup players and changes nothing else: every other player *)
(* and every game is unchanged, applying it twice restores the original     *)
(* players state, and it is a no-op when either id is not in the roster.    *)
inRoster(id) == findIndex(players, id) # 0

\* all of a player but the slot
sameButSlot(p, q) ==
    [p EXCEPT !.location = q.location, !.position = q.position] = q

slotOf(p) == <<p.location, p.position>>

SwapEffect(a, b) ==
    /\ games' = games
    /\ Len(players') = Len(players)
    /\ \A i \in 1..Len(players) : sameButSlot(players'[i], players[i])
    /\ \A i \in 1..Len(players) :
          players[i].id \notin {a, b} => players'[i] = players[i]
    /\ IF inRoster(a) /\ inRoster(b)
       THEN /\ slotOf(players'[findIndex(players, a)]) = slotOf(players[findIndex(players, b)])
            /\ slotOf(players'[findIndex(players, b)]) = slotOf(players[findIndex(players, a)])
       ELSE players' = players
    /\ swapPlayersOn(players', a, b) = players

SwapExchangesSlotsOnly ==
    [][\A a \in PlanIds, b \in PlanIds : swapPlayers(a, b) => SwapEffect(a, b)]_vars

\* a game exists, and the two players stand in different slots: one on the
\* field, the other on the bench, as after a swap of the opposite placing
SwapExchangesSlotsOnlyWitness ==
    /\ games # << >>
    /\ inRoster("p1") /\ inRoster("p2")
    /\ slotOf(players[findIndex(players, "p1")]) = <<"bench", NULL>>
    /\ slotOf(players[findIndex(players, "p2")]) = <<"field", "posA">>
    /\ swapPlayersOn(players, "p1", "p2") # players

----------------------------------------------------------------------------
(* C40: in every reachable state savedLineups holds at most one lineup per  *)
(* name and no lineup with a blank name: saveLineup with a name that is     *)
(* empty or only whitespace leaves savedLineups unchanged, and saveLineup   *)
(* with an existing (trimmed) name replaces that lineup instead of adding a *)
(* second one.                                                              *)
isBlank(name) == \A i \in 1..Len(name) : name[i] = " "

namedCount(lineups, name) ==
    Cardinality({ i \in 1..Len(lineups) : lineups[i].name = name })

OneLineupPerName(lineups) ==
    /\ \A i \in 1..Len(lineups) : ~isBlank(lineups[i].name)
    /\ \A i \in 1..Len(lineups) : namedCount(lineups, lineups[i].name) = 1

SaveEffect(n) ==
    IF isBlank(n)
    THEN savedLineups' = savedLineups
    ELSE /\ namedCount(savedLineups', trim(n)) = 1
         /\ savedLineups'[Len(savedLineups')] = lineupToSave(n, players)
         /\ Len(savedLineups') =
               Len(savedLineups) + 1 - namedCount(savedLineups, trim(n))
         /\ \A i \in 1..Len(savedLineups) :
               savedLineups[i].name # trim(n)
                 => \E j \in 1..Len(savedLineups') : savedLineups'[j] = savedLineups[i]

SavedLineupsNamedOnce ==
    /\ []OneLineupPerName(savedLineups)
    /\ [][\A n \in LineupNames : saveLineup(n) => SaveEffect(n)]_vars

\* two lineups are kept; the one named "a" was saved last, with a player on
\* the field, and the stored copy agrees
SavedLineupsNamedOnceWitness ==
    /\ Len(savedLineups) = 2
    /\ savedLineups[1].name = <<"b">> /\ savedLineups[2].name = <<"a">>
    /\ \E k \in 1..Len(savedLineups[2].players) :
          savedLineups[2].players[k].location = "field"
    /\ storedLineups = savedLineups

----------------------------------------------------------------------------
(* C39: saveLineup(n) with a non-blank name followed by loadLineup(n), with *)
(* any sequence of movePlayer, swapPlayers and resetLineup calls in between *)
(* and no roster change, returns true and restores every player's location  *)
(* and position to their values at the time of the save; loadLineup of a    *)
(* name that was never saved or was deleted returns false and leaves        *)
(* players unchanged.                                                       *)
slotsOf(ps) == [i \in 1..Len(ps) |-> <<ps[i].id, ps[i].location, ps[i].position>>]

\* the load returned true and every player stands where the save saw them
isRestored ==
    /\ loadReturned' = "true"
    /\ slotsOf(players') = slotsOf(lastSaved[1].players)
    /\ \A i \in 1..Len(players) : sameButSlot(players'[i], players[i])

\* the load returned false and moved nobody
isRefused == loadReturned' = "false" /\ players' = players

\* the claim as stated: the lineup is loaded under the name as it was passed
\* to saveLineup
LoadOfSavedNameRestores ==
    [][\A m \in LineupNames :
          /\ (loadLineup(m) /\ lastSaved # << >> /\ m = lastSaved[1].name)
                => isRestored
          /\ (loadLineup(m) /\ namedCount(savedLineups, m) = 0) => isRefused]_vars

\* as amended: the lineup is loaded under the trimmed name
LoadOfTrimmedNameRestores ==
    [][\A m \in LineupNames :
          /\ (loadLineup(m) /\ lastSaved # << >> /\ m = trim(lastSaved[1].name))
                => isRestored
          /\ (loadLineup(m) /\ namedCount(savedLineups, m) = 0) => isRefused]_vars

\* a lineup was saved as " a" with a player on the field, the players were
\* moved since, and it is kept under "a"
LoadOfTrimmedNameRestoresWitness ==
    /\ lastSaved # << >>
    /\ lastSaved[1].name = <<" ", "a">>
    /\ findLineup(savedLineups, <<"a">>) # 0
    /\ \E k \in 1..Len(lastSaved[1].players) : lastSaved[1].players[k].location = "field"
    /\ slotsOf(players) # slotsOf(lastSaved[1].players)

----------------------------------------------------------------------------
(* C38: after an auth state change to no session, once every in-flight      *)
(* fetchTeamAndPlayers call has completed, teamData is null and players is  *)
(* empty, whatever the order in which overlapping fetches (started by       *)
(* getSession and by onAuthStateChange for an earlier signed-in user)       *)
(* complete.                                                                *)
isSignedOutAndQuiet ==
    /\ session = NULL /\ currentUser = NULL
    /\ ~sessionAsked
    /\ fetches = << >>

SignedOutLeavesNoTeam ==
    isSignedOutAndQuiet => teamData = NULL /\ players = << >>

====
